---- MODULE Spec2Model ----
(***************************************************************************)
(* A model of tf::Executor (include/taskflow/core/executor.hpp): the       *)
(* work-stealing scheduler with per-domain notifiers, the join-counter     *)
(* protocol of _invoke / _exploit_task, and the topology life cycle of     *)
(* run_until / _tear_down_topology.                                        *)
(*                                                                         *)
(* Threads are the executor's workers (1..NumWorkers) and the external     *)
(* threads that submit graphs.  Every action is one step of one thread;    *)
(* a step contains at most one group of accesses to shared state that the  *)
(* code performs back to back.  Graphs, workers and submissions are fixed  *)
(* by the scenario chosen in the initial state.                            *)
(***************************************************************************)
EXTENDS Naturals, Integers, Sequences, FiniteSets, TLC

VARIABLES
  sc,             \* the scenario: graphs, workers, submissions (never changes)
  jc,             \* Node::_join_counter
  st,             \* Node::_state, a set of bits
  ntpg,           \* Node::_topology (a submission id, 0 = null)
  npar,           \* Node::_parent (a node, 0 = null)
  tjc,            \* Topology::_join_counter
  rep,            \* state of Topology::_pred: false results still to come
  tlist,          \* Taskflow::_topologies, per graph
  numTopologies,  \* Executor::_num_topologies
  wsq,            \* Worker::wsq[NUM_DOMAINS], per worker
  gwsq,           \* Executor::_wsq[NUM_DOMAINS]
  cache,          \* Worker::cache
  numActives,     \* Executor::_num_actives
  numThieves,     \* Executor::_num_thieves
  done,           \* Executor::_done
  waiter,         \* Notifier: state of each worker's waiter
  notified,       \* Notifier: waiters with a notification not yet consumed
  pc,             \* position of each thread
  t,              \* local Node* t of the worker loop
  tpgl,           \* local tpg of _exploit_task
  par,            \* local par of _exploit_task
  exe,            \* local exe of _exploit_task
  rv, xpl,             \* local id of _invoke (result of a condition callable)
  cur,            \* run_until: the submission a thread is making
  ret,            \* run_until: where the calling thread continues
  pos,            \* external thread: submissions made so far
  inv,            \* history: invocations of each node's callable
  cbCount,        \* history: invocations of each submission's callback
  ready,          \* history: set_value calls on each submission's promise
  predEvals,      \* history: evaluations of each submission's predicate
  setupLog,       \* history: per graph, topologies in the order they were set up
  subLog          \* history: per graph, topologies in the order they were appended

vars == <<sc, jc, st, ntpg, npar, tjc, rep, tlist, numTopologies, wsq, gwsq,
          cache, numActives, numThieves, done, waiter, notified, pc, t, tpgl,
          par, exe, rv, xpl, cur, ret, pos, inv, cbCount, ready, predEvals,
          setupLog, subLog>>

nodeVars  == <<jc, st, ntpg, npar>>
tpgVars   == <<tjc, rep, tlist>>
queueVars == <<wsq, gwsq, cache>>
countVars == <<numActives, numThieves>>
ntfVars   == <<waiter, notified>>
locVars   == <<t, tpgl, par, exe, rv, xpl>>
subVars   == <<cur, ret, pos>>
histVars  == <<inv, cbCount, ready, predEvals, setupLog, subLog>>

-----------------------------------------------------------------------------
(* Bounds of the model.                                                    *)

\* largest repeat count K of a run_n in the scenarios
MaxRepeat == 2

\* Domain (HOST, CUDA) and NUM_DOMAINS
Domains == {"HOST", "CUDA"}

-----------------------------------------------------------------------------
(* The scenario: the graphs the user built, the executor's workers and the *)
(* submissions the threads make.                                           *)

Nodes    == 1..Len(sc.kind)
Graphs   == 1..sc.ngraphs
Subs     == 1..Len(sc.subs)
Workers  == 1..Len(sc.wdom)
Exts     == (Len(sc.wdom) + 1)..(Len(sc.wdom) + Len(sc.prog))
Threads  == Workers \cup Exts
MainExt  == Len(sc.wdom) + 1

\* Worker::domain
WDom(w) == sc.wdom[w]

\* PerThread::worker of thread th, as the thread body of _spawn sets it: a
\* worker thread of this executor points to its Worker, a worker thread of
\* another executor of the process to the Worker it has there (with its id
\* there), and any other thread has the null pointer (executor "none")
PerThreadWorker(th) ==
  IF th \in Workers THEN [id |-> th - 1, executor |-> "this"]
  ELSE IF sc.foreign[th - Len(sc.wdom)] >= 0
  THEN [id |-> sc.foreign[th - Len(sc.wdom)], executor |-> "other"]
  ELSE [id |-> -1, executor |-> "none"]

\* Executor::this_worker_id() called by thread th
ThisWorkerId(th) ==
  IF PerThreadWorker(th).executor # "none" THEN PerThreadWorker(th).id ELSE -1


\* the test of _schedule: worker != nullptr && worker->executor == this
CallerIsWorker(th) == PerThreadWorker(th).executor = "this"
\* Node::domain()
Dom(n) == IF sc.kind[n] = "cuda" THEN "CUDA" ELSE "HOST"
\* Node::_successors and Node::num_successors()
Succ(n) == sc.succ[n]
\* nodes of taskflow g (Taskflow::_graph._nodes), in construction order
GraphNodes(g) == {n \in Nodes : sc.graph[n] = g}
\* nodes a dynamic node u emplaces into its subflow each time its callable runs
SubflowNodes(u) == {n \in Nodes : sc.sub[n] = u}

\* Node::num_dependents(): incoming edges
NumDependents(n) ==
  Cardinality({e \in Nodes \X (1..Len(sc.kind)) :
                 e[2] <= Len(Succ(e[1])) /\ Succ(e[1])[e[2]] = n})
\* Node::num_strong_dependents(): incoming edges not from a condition node
NumStrongDependents(n) ==
  Cardinality({e \in Nodes \X (1..Len(sc.kind)) :
                 /\ e[2] <= Len(Succ(e[1])) /\ Succ(e[1])[e[2]] = n
                 /\ sc.kind[e[1]] # "cond"})
\* Node::num_weak_dependents() > 0: some dependent is a condition node
HasCondDependent(n) == NumStrongDependents(n) < NumDependents(n)

\* the elements of a set of nodes in increasing order (the order of _nodes)
RECURSIVE SetToSeq(_)
SetToSeq(S) ==
  IF S = {} THEN <<>>
  ELSE LET m == CHOOSE x \in S : \A y \in S : x <= y
       IN <<m>> \o SetToSeq(S \ {m})

\* the nodes of S with num_dependents() == 0, in the order of _nodes
SourcesOf(S) == SetToSeq({n \in S : NumDependents(n) = 0})

\* Topology::_sources as _set_up_topology collects them
Sources(s) == SourcesOf(GraphNodes(sc.subs[s].g))

\* Taskflow::empty()
GraphEmpty(g) == GraphNodes(g) = {}


-----------------------------------------------------------------------------
(* TaskQueue<Node*>: owner push/pop at the bottom, steal at the top.       *)

\* TaskQueue::push for each node of ns in turn, onto the deque of its domain
RECURSIVE PushSeq(_, _)
PushSeq(q, ns) ==
  IF ns = <<>> THEN q
  ELSE PushSeq([q EXCEPT ![Dom(Head(ns))] = Append(@, Head(ns))], Tail(ns))

\* TaskQueue::pop: the node the owner takes (0 = nullptr) and what is left
PopNode(q) == IF q = <<>> THEN 0 ELSE q[Len(q)]
PopRest(q) == IF q = <<>> THEN q ELSE SubSeq(q, 1, Len(q) - 1)

\* TaskQueue::steal: the node a thief takes (0 = nullptr) and what is left
StealNode(q) == IF q = <<>> THEN 0 ELSE Head(q)
StealRest(q) == IF q = <<>> THEN q ELSE Tail(q)

\* number of nodes of domain d in a sequence of nodes (tcount[d])
RECURSIVE CountDom(_, _)
CountDom(ns, d) ==
  IF ns = <<>> THEN 0
  ELSE (IF Dom(Head(ns)) = d THEN 1 ELSE 0) + CountDom(Tail(ns), d)

-----------------------------------------------------------------------------
(* Notifier: one per domain, one waiter per worker of the domain.          *)

Min(a, b) == IF a <= b THEN a ELSE b

ZeroReq == [d \in Domains |-> 0]
\* a request that reaches every waiter: notify(true)
AllReq == [d \in Domains |-> Cardinality(Workers)]

\* waiters of _notifier[d] a notification can reach: preparing or committed,
\* and not yet notified
Notifiable(d) ==
  {w \in Workers : WDom(w) = d /\ waiter[w] # "idle" /\ w \notin notified}

\* Notifier::notify(false) req[d] times on _notifier[d] (notify_n): every
\* set of waiters the calls may reach
NotifyOutcomes(req) ==
  {notified \cup X :
     X \in {Y \in SUBSET (UNION {Notifiable(d) : d \in Domains}) :
              \A d \in Domains :
                 Cardinality(Y \cap Notifiable(d)) =
                   Min(req[d], Cardinality(Notifiable(d)))}}

\* a _schedule that never notifies the domain of a node it pushed
WorkerReqNever(w, cnt) == ZeroReq

\* the notifications of a worker's _schedule without the reads of
\* num_actives and num_thieves: one notify_n per foreign domain that got a
\* node
WorkerReqBlind(w, cnt) ==
  [d \in Domains |-> IF d # WDom(w) THEN cnt[d] ELSE 0]

\* the notifications of a worker's _schedule: only for a foreign domain, and
\* only if that domain has neither an active worker nor a thief
WorkerReq(w, cnt) ==
  [d \in Domains |->
     IF d # WDom(w) /\ cnt[d] > 0 /\ numActives[d] = 0 /\ numThieves[d] = 0
     THEN cnt[d] ELSE 0]

-----------------------------------------------------------------------------
(* Node and topology set-up.                                               *)

\* Node::_set_up_join_counter: count the dependents that are not condition
\* nodes; a node with a condition dependent gets the BRANCH bit
SetUpJoinCounter(n) == NumStrongDependents(n)
SetUpState(n, bits) == IF HasCondDependent(n) THEN bits \cup {"BRANCH"} ELSE bits

\* a restore that ignores the BRANCH bit: always num_dependents()
RestoredJoinCounterAll(n, bits) == NumDependents(n)

\* the value _invoke restores a node's join counter to
RestoredJoinCounter(n, bits) ==
  IF "BRANCH" \in bits THEN NumStrongDependents(n) ELSE NumDependents(n)

-----------------------------------------------------------------------------
(* Executor::_invoke.  The step Invoke runs the node's callable; the step  *)
(* Post is everything _invoke does after the callable returned.  Post      *)
(* computes a record: the new join counters and state bits, the worker's   *)
(* own deques after its pushes (q), the node left for the cache slot       *)
(* (cache), how often the join site c was incremented (cinc), what was     *)
(* added to the topology's counter by a detached subflow (tadd) and how    *)
(* many nodes were scheduled without bypass per domain (cnt).              *)

\* a release loop that schedules a successor at every decrement, whatever
\* the counter's new value
RECURSIVE ReleaseLoopEager(_, _, _, _)
ReleaseLoopEager(w, n, i, acc) ==
  IF i > Len(Succ(n)) THEN acc
  ELSE LET s  == Succ(n)[i]
           a1 == [acc EXCEPT !.jc[s] = @ - 1]
       IN IF a1.cache # 0
          THEN ReleaseLoopEager(w, n, i + 1,
                 [a1 EXCEPT !.cinc = @ + 1,
                            !.q[Dom(a1.cache)] = Append(@, a1.cache),
                            !.cache = s])
          ELSE ReleaseLoopEager(w, n, i + 1, [a1 EXCEPT !.cache = s])

\* a release loop that keeps the first ready successor of the worker's
\* domain for the cache slot and pushes the later ones
RECURSIVE ReleaseLoopCacheFirst(_, _, _, _)
ReleaseLoopCacheFirst(w, n, i, acc) ==
  IF i > Len(Succ(n)) THEN acc
  ELSE LET s  == Succ(n)[i]
           j  == acc.jc[s] - 1
           a1 == [acc EXCEPT !.jc[s] = j]
       IN IF j # 0 THEN ReleaseLoopCacheFirst(w, n, i + 1, a1)
          ELSE IF Dom(s) # WDom(w) \/ a1.cache # 0
          THEN ReleaseLoopCacheFirst(w, n, i + 1,
                 [a1 EXCEPT !.cinc = @ + 1,
                            !.q[Dom(s)] = Append(@, s),
                            !.cnt[Dom(s)] = @ + (IF Dom(s) # WDom(w) THEN 1 ELSE 0)])
          ELSE ReleaseLoopCacheFirst(w, n, i + 1, [a1 EXCEPT !.cache = s])

\* the successor release loop of _invoke, from successor i on
RECURSIVE ReleaseLoop(_, _, _, _)
ReleaseLoop(w, n, i, acc) ==
  IF i > Len(Succ(n)) THEN acc
  ELSE LET s  == Succ(n)[i]
           j  == acc.jc[s] - 1
           a1 == [acc EXCEPT !.jc[s] = j]
       IN IF j # 0 THEN ReleaseLoop(w, n, i + 1, a1)
          ELSE IF Dom(s) # WDom(w)
          THEN ReleaseLoop(w, n, i + 1,
                 [a1 EXCEPT !.cinc = @ + 1,
                            !.q[Dom(s)] = Append(@, s),
                            !.cnt[Dom(s)] = @ + 1])
          ELSE IF a1.cache # 0
          THEN ReleaseLoop(w, n, i + 1,
                 [a1 EXCEPT !.cinc = @ + 1,
                            !.q[Dom(a1.cache)] = Append(@, a1.cache),
                            !.cache = s])
          ELSE ReleaseLoop(w, n, i + 1, [a1 EXCEPT !.cache = s])

\* a release that leaves the SPAWNED bit set
ReleaseKeepSpawned(w, n, acc) ==
  ReleaseLoop(w, n, 1,
    [acc EXCEPT !.jc[n] = RestoredJoinCounter(n, acc.st[n])])

\* the normal path of _invoke: restore the node's own join counter, clear
\* SPAWNED, release the successors
Release(w, n, acc) ==
  ReleaseLoop(w, n, 1,
    [acc EXCEPT !.jc[n] = RestoredJoinCounter(n, acc.st[n]),
                !.st[n] = @ \ {"SPAWNED"}])

\* the children of a dynamic or module node are attached to the node's
\* topology, get their join counters, and (unless detached) the node as parent
AttachChildren(n, children, fresh, detached, acc) ==
  [acc EXCEPT
     !.ntpg = [m \in Nodes |-> IF m \in children THEN acc.ntpg[n] ELSE @[m]],
     !.npar = [m \in Nodes |->
                 IF m \in children
                 THEN (IF detached THEN (IF fresh THEN 0 ELSE @[m]) ELSE n)
                 ELSE @[m]],
     !.jc   = [m \in Nodes |->
                 IF m \in children THEN SetUpJoinCounter(m) ELSE @[m]],
     !.st   = [m \in Nodes |->
                 IF m \in children
                 THEN SetUpState(m, IF fresh THEN {} ELSE @[m])
                 ELSE @[m]]]

\* _schedule(src) by worker w: push every node on w's own deque of the
\* node's domain
ScheduleBatch(src, acc) ==
  [acc EXCEPT !.q = PushSeq(@, src),
              !.cnt = [d \in Domains |-> @[d] + CountDom(src, d)]]

\* a dynamic case that goes on to the release of the successors after it
\* has scheduled a joined subflow
PostDynamicNoReturn(w, n, acc) ==
  IF "SPAWNED" \in acc.st[n] THEN Release(w, n, acc)
  ELSE LET a0  == [acc EXCEPT !.st[n] = @ \cup {"SPAWNED"}]
           sub == SubflowNodes(n)
           src == SourcesOf(sub)
           a1  == AttachChildren(n, sub, TRUE, sc.detached[n], a0)
       IN IF sub = {} THEN Release(w, n, a0)
          ELSE IF sc.detached[n]
          THEN Release(w, n,
                 ScheduleBatch(src, [a1 EXCEPT !.tadd = @ + Len(src)]))
          ELSE Release(w, n,
                 ScheduleBatch(src,
                   [a1 EXCEPT !.jc[n] = @ + Len(src), !.cinc = @ + 1]))

\* a dynamic case that schedules a joined subflow without counting the
\* node's second visit at the join site c
PostDynamicNoCount(w, n, acc) ==
  IF "SPAWNED" \in acc.st[n] THEN Release(w, n, acc)
  ELSE LET a0  == [acc EXCEPT !.st[n] = @ \cup {"SPAWNED"}]
           sub == SubflowNodes(n)
           src == SourcesOf(sub)
           a1  == AttachChildren(n, sub, TRUE, sc.detached[n], a0)
       IN IF sub = {} THEN Release(w, n, a0)
          ELSE IF sc.detached[n]
          THEN Release(w, n,
                 ScheduleBatch(src, [a1 EXCEPT !.tadd = @ + Len(src)]))
          ELSE ScheduleBatch(src, [a1 EXCEPT !.jc[n] = @ + Len(src)])

\* case Node::DYNAMIC_WORK after the callable returned
PostDynamic(w, n, acc) ==
  IF "SPAWNED" \in acc.st[n] THEN Release(w, n, acc)
  ELSE LET a0  == [acc EXCEPT !.st[n] = @ \cup {"SPAWNED"}]
           sub == SubflowNodes(n)
           src == SourcesOf(sub)
           a1  == AttachChildren(n, sub, TRUE, sc.detached[n], a0)
       IN IF sub = {} THEN Release(w, n, a0)
          ELSE IF sc.detached[n]
          THEN Release(w, n,
                 ScheduleBatch(src, [a1 EXCEPT !.tadd = @ + Len(src)]))
          ELSE ScheduleBatch(src,
                 [a1 EXCEPT !.jc[n] = @ + Len(src), !.cinc = @ + 1])

\* a _set_up_module_work that schedules the sources of the module without
\* counting the node's second visit at its parent or topology
PostModuleNoCount(w, n, acc) ==
  IF "SPAWNED" \in acc.st[n] THEN Release(w, n, acc)
  ELSE LET a0  == [acc EXCEPT !.st[n] = @ \cup {"SPAWNED"}]
           mod == GraphNodes(sc.module[n])
           src == SourcesOf(mod)
           a1  == AttachChildren(n, mod, FALSE, FALSE, a0)
       IN IF mod = {} THEN Release(w, n, a0)
          ELSE ScheduleBatch(src, [a1 EXCEPT !.jc[n] = @ + Len(src)])

\* a module case that goes on to the release of the successors after it has
\* scheduled the sources of a non-empty module
PostModuleNoReturn(w, n, acc) ==
  IF "SPAWNED" \in acc.st[n] THEN Release(w, n, acc)
  ELSE LET a0  == [acc EXCEPT !.st[n] = @ \cup {"SPAWNED"}]
           mod == GraphNodes(sc.module[n])
           src == SourcesOf(mod)
           a1  == AttachChildren(n, mod, FALSE, FALSE, a0)
       IN IF mod = {} THEN Release(w, n, a0)
          ELSE Release(w, n,
                 ScheduleBatch(src,
                   [a1 EXCEPT !.jc[n] = @ + Len(src), !.cinc = @ + 1]))

\* case Node::MODULE_WORK with _set_up_module_work
PostModule(w, n, acc) ==
  IF "SPAWNED" \in acc.st[n] THEN Release(w, n, acc)
  ELSE LET a0  == [acc EXCEPT !.st[n] = @ \cup {"SPAWNED"}]
           mod == GraphNodes(sc.module[n])
           src == SourcesOf(mod)
           a1  == AttachChildren(n, mod, FALSE, FALSE, a0)
       IN IF mod = {} THEN Release(w, n, a0)
          ELSE ScheduleBatch(src,
                 [a1 EXCEPT !.jc[n] = @ + Len(src), !.cinc = @ + 1])

\* a condition case that schedules the chosen successor without the bypass
\* hint: it is pushed on the worker's deque
PostConditionPush(w, n, id, acc) ==
  IF id >= 0 /\ id < Len(Succ(n))
  THEN LET s  == Succ(n)[id + 1]
           a1 == [acc EXCEPT !.jc[s] = 0]
       IN [a1 EXCEPT !.cinc = @ + 1,
                     !.q[Dom(s)] = Append(@, s),
                     !.cnt[Dom(s)] = @ + 1]
  ELSE acc

\* a condition case that breaks out of the switch instead of returning, and
\* so applies the release loop as well
PostConditionNoReturn(w, n, id, acc) ==
  IF id >= 0 /\ id < Len(Succ(n))
  THEN LET s  == Succ(n)[id + 1]
           a1 == [acc EXCEPT !.jc[s] = 0]
       IN IF Dom(s) = WDom(w)
          THEN Release(w, n, [a1 EXCEPT !.cache = s])
          ELSE Release(w, n, [a1 EXCEPT !.cinc = @ + 1,
                                        !.q[Dom(s)] = Append(@, s),
                                        !.cnt[Dom(s)] = @ + 1])
  ELSE Release(w, n, acc)

\* case Node::CONDITION_WORK after the callable returned id
PostCondition(w, n, id, acc) ==
  IF id >= 0 /\ id < Len(Succ(n))
  THEN LET s  == Succ(n)[id + 1]
           a1 == [acc EXCEPT !.jc[s] = 0]
       IN IF Dom(s) = WDom(w)
          THEN [a1 EXCEPT !.cache = s]
          ELSE [a1 EXCEPT !.cinc = @ + 1,
                          !.q[Dom(s)] = Append(@, s),
                          !.cnt[Dom(s)] = @ + 1]
  ELSE acc

\* what _invoke(worker w, node n) does after the callable
PostResult(w, n) ==
  LET acc == [jc |-> jc, st |-> st, ntpg |-> ntpg, npar |-> npar,
              q |-> wsq[w], cache |-> 0, cinc |-> 0, tadd |-> 0,
              cnt |-> ZeroReq]
      k   == sc.kind[n]
  IN CASE k = "dyn"    -> PostDynamic(w, n, acc)
       [] k = "module" -> PostModule(w, n, acc)
       [] k = "cond"   -> PostCondition(w, n, rv[w], acc)
       [] OTHER        -> Release(w, n, acc)

\* whether this visit of node n runs the user's callable
RunsCallable(n) ==
  \/ sc.kind[n] \in {"static", "cuda", "cond"}
  \/ sc.kind[n] = "dyn" /\ "SPAWNED" \notin st[n]

\* the branch index a condition callable returns at this invocation
CondResult(n) == sc.cret[n][Min(inv[n] + 1, Len(sc.cret[n]))]

\* _invoke up to the call of the callable.  A condition node first gets its
\* join counter restored.  A callable may submit a run of another graph
\* before it returns.  A visit that runs no callable goes on at once.
Invoke(w) ==
  /\ pc[w] = "invoke"
  /\ LET n == t[w]
         submits == RunsCallable(n) /\ sc.nsub[n] # 0 /\ inv[n] = 0
     IN /\ jc' = IF sc.kind[n] = "cond"
                 THEN [jc EXCEPT ![n] = RestoredJoinCounter(n, st[n])]
                 ELSE jc
        /\ pc' = [pc EXCEPT ![w] = IF ~RunsCallable(n) THEN "post"
                                   ELSE IF submits THEN "ru_inc" ELSE "run"]
        /\ cur' = IF submits THEN [cur EXCEPT ![w] = sc.nsub[n]] ELSE cur
        /\ ret' = IF submits THEN [ret EXCEPT ![w] = "run"] ELSE ret
  /\ UNCHANGED <<sc, st, ntpg, npar, tpgVars, numTopologies, queueVars,
                 countVars, done, ntfVars, locVars, pos, histVars>>

\* the callable returns; a condition callable returns its branch index
CallReturn(w) ==
  /\ pc[w] = "run"
  /\ inv' = [inv EXCEPT ![t[w]] = @ + 1]
  /\ rv' = [rv EXCEPT ![w] = IF sc.kind[t[w]] = "cond"
                             THEN CondResult(t[w]) ELSE 0]
  /\ pc' = [pc EXCEPT ![w] = "post"]
  /\ UNCHANGED <<sc, nodeVars, tpgVars, numTopologies, queueVars, countVars,
                 done, ntfVars, t, tpgl, par, exe, xpl, subVars, cbCount,
                 ready, predEvals, setupLog, subLog>>

\* the record of a visit that changes nothing
NoEffect(w) ==
  [jc |-> jc, st |-> st, ntpg |-> ntpg, npar |-> npar, q |-> wsq[w],
   cache |-> 0, cinc |-> 0, tadd |-> 0, cnt |-> ZeroReq]

\* the effects of a visit r are written to the shared state: the node
\* fields, the counter of the join site c and of the topology, the worker's
\* deques and cache slot, and the notifications of _schedule
ApplyInvoke(w, n, r) ==
  /\ jc' = IF npar[n] # 0
           THEN [r.jc EXCEPT ![npar[n]] = @ + r.cinc]
           ELSE r.jc
  /\ tjc' = [tjc EXCEPT ![ntpg[n]] =
                @ + r.tadd + (IF npar[n] = 0 THEN r.cinc ELSE 0)]
  /\ st' = r.st
  /\ ntpg' = r.ntpg
  /\ npar' = r.npar
  /\ wsq' = [wsq EXCEPT ![w] = r.q]
  /\ cache' = IF r.cache # 0 THEN [cache EXCEPT ![w] = r.cache] ELSE cache
  /\ \E nt \in NotifyOutcomes(WorkerReq(w, r.cnt)) : notified' = nt

\* a detach that schedules the sources of the subflow, and goes on, before
\* it adds their number to the topology's counter
DetachStepsScheduleFirst(w, r) ==
  <<[r EXCEPT !.tadd = 0], [NoEffect(w) EXCEPT !.tadd = r.tadd]>>

\* the two steps of a visit r that detaches a subflow: the number of sources
\* is added to the topology's counter, then the sources are scheduled and
\* the visit goes on to the release of the successors
DetachSteps(w, r) ==
  <<[NoEffect(w) EXCEPT !.tadd = r.tadd], [r EXCEPT !.tadd = 0]>>

\* _invoke after the callable: dispatch on the kind of the node.  A visit
\* that detaches a non-empty subflow stops after its fetch_add on the
\* topology's counter.
Post(w) ==
  /\ pc[w] = "post"
  /\ LET n == t[w]
         r == PostResult(w, n)
     IN IF r.tadd > 0
        THEN /\ ApplyInvoke(w, n, DetachSteps(w, r)[1])
             /\ pc' = [pc EXCEPT ![w] = "post_sched"]
        ELSE /\ ApplyInvoke(w, n, r)
             /\ pc' = [pc EXCEPT ![w] = "next"]
  /\ UNCHANGED <<sc, rep, tlist, numTopologies, gwsq, countVars, done, waiter,
                 locVars, subVars, histVars>>

\* ... and goes on from _schedule(src)
PostSched(w) ==
  /\ pc[w] = "post_sched"
  /\ ApplyInvoke(w, t[w], DetachSteps(w, PostResult(w, t[w]))[2])
  /\ pc' = [pc EXCEPT ![w] = "next"]
  /\ UNCHANGED <<sc, rep, tlist, numTopologies, gwsq, countVars, done, waiter,
                 locVars, subVars, histVars>>

-----------------------------------------------------------------------------
(* Executor::_exploit_task.                                                *)

\* one notify(false) on _notifier[d] if cond holds, none otherwise
OneReq(d, cond) == [x \in Domains |-> IF x = d /\ cond THEN 1 ELSE 0]

\* Notifier::cancel_wait / the return of commit_wait: the waiter is idle
\* again and a notification it had is used up
Idle(w) == [waiter EXCEPT ![w] = "idle"]

\* an entry of _exploit_task that counts the worker as active whether it
\* brings a task or not
ExploitEnterCountNull(w) ==
  /\ pc[w] = "exploit"
  /\ numActives' = [numActives EXCEPT ![WDom(w)] = @ + 1]
  /\ \E nt \in NotifyOutcomes(OneReq(WDom(w),
                  numActives[WDom(w)] = 0 /\ numThieves[WDom(w)] = 0)) :
        notified' = nt
  /\ IF t[w] = 0
     THEN /\ pc' = [pc EXCEPT ![w] = "wft"]
          /\ UNCHANGED <<tpgl, par, exe>>
     ELSE /\ tpgl' = [tpgl EXCEPT ![w] = ntpg[t[w]]]
          /\ par' = [par EXCEPT ![w] = npar[t[w]]]
          /\ exe' = [exe EXCEPT ![w] = 1]
          /\ pc' = [pc EXCEPT ![w] = "invoke"]
  /\ UNCHANGED <<sc, nodeVars, tpgVars, numTopologies, queueVars, numThieves,
                 done, waiter, t, rv, xpl, subVars, histVars>>

\* a worker loop with the condition !_done instead of 1: the worker leaves
\* before _exploit_task once _done is set
ExploitEnterUnlessDone(w) ==
  /\ pc[w] = "exploit"
  /\ IF done
     THEN /\ pc' = [pc EXCEPT ![w] = "exited"]
          /\ UNCHANGED <<numActives, notified, tpgl, par, exe>>
     ELSE IF t[w] = 0
     THEN /\ pc' = [pc EXCEPT ![w] = "wft"]
          /\ UNCHANGED <<numActives, notified, tpgl, par, exe>>
     ELSE /\ numActives' = [numActives EXCEPT ![WDom(w)] = @ + 1]
          /\ \E nt \in NotifyOutcomes(OneReq(WDom(w),
                          numActives[WDom(w)] = 0 /\ numThieves[WDom(w)] = 0)) :
                notified' = nt
          /\ tpgl' = [tpgl EXCEPT ![w] = ntpg[t[w]]]
          /\ par' = [par EXCEPT ![w] = npar[t[w]]]
          /\ exe' = [exe EXCEPT ![w] = 1]
          /\ pc' = [pc EXCEPT ![w] = "invoke"]
  /\ UNCHANGED <<sc, nodeVars, tpgVars, numTopologies, queueVars, numThieves,
                 done, waiter, t, rv, xpl, subVars, histVars>>

\* entry of _exploit_task: nothing to do for a null task; otherwise count the
\* worker as active, wake a waiter if it is the first active worker and no
\* thief is around, and fetch the task's topology and parent
ExploitEnter(w) ==
  /\ pc[w] = "exploit"
  /\ IF t[w] = 0
     THEN /\ pc' = [pc EXCEPT ![w] = "wft"]
          /\ UNCHANGED <<numActives, notified, tpgl, par, exe>>
     ELSE /\ numActives' = [numActives EXCEPT ![WDom(w)] = @ + 1]
          /\ \E nt \in NotifyOutcomes(OneReq(WDom(w),
                          numActives[WDom(w)] = 0 /\ numThieves[WDom(w)] = 0)) :
                notified' = nt
          /\ tpgl' = [tpgl EXCEPT ![w] = ntpg[t[w]]]
          /\ par' = [par EXCEPT ![w] = npar[t[w]]]
          /\ exe' = [exe EXCEPT ![w] = 1]
          /\ pc' = [pc EXCEPT ![w] = "invoke"]
  /\ UNCHANGED <<sc, nodeVars, tpgVars, numTopologies, queueVars, numThieves,
                 done, waiter, t, rv, xpl, subVars, histVars>>

\* a loop of _exploit_task that pops the own deque before it looks at the
\* cache slot
NextTaskDequeFirst(w) ==
  /\ pc[w] = "next"
  /\ IF wsq[w][WDom(w)] = <<>> /\ cache[w] # 0
     THEN /\ t' = [t EXCEPT ![w] = cache[w]]
          /\ cache' = [cache EXCEPT ![w] = 0]
          /\ pc' = [pc EXCEPT ![w] = "invoke"]
          /\ UNCHANGED <<wsq, exe>>
     ELSE LET n == PopNode(wsq[w][WDom(w)])
          IN /\ t' = [t EXCEPT ![w] = n]
             /\ wsq' = [wsq EXCEPT ![w][WDom(w)] = PopRest(@)]
             /\ exe' = IF n # 0 /\ npar[n] = par[w]
                       THEN [exe EXCEPT ![w] = @ + 1] ELSE exe
             /\ pc' = [pc EXCEPT ![w] =
                         IF n = 0 THEN "drain"
                         ELSE IF npar[n] = par[w] THEN "invoke" ELSE "acct"]
             /\ UNCHANGED cache
  /\ UNCHANGED <<sc, nodeVars, tpgVars, numTopologies, gwsq, countVars, done,
                 ntfVars, tpgl, par, rv, xpl, subVars, histVars>>

\* after _invoke: take the cache slot, else pop the own deque
NextTask(w) ==
  /\ pc[w] = "next"
  /\ IF cache[w] # 0
     THEN /\ t' = [t EXCEPT ![w] = cache[w]]
          /\ cache' = [cache EXCEPT ![w] = 0]
          /\ pc' = [pc EXCEPT ![w] = "invoke"]
          /\ UNCHANGED <<wsq, exe>>
     ELSE LET n == PopNode(wsq[w][WDom(w)])
          IN /\ t' = [t EXCEPT ![w] = n]
             /\ wsq' = [wsq EXCEPT ![w][WDom(w)] = PopRest(@)]
             /\ exe' = IF n # 0 /\ npar[n] = par[w]
                       THEN [exe EXCEPT ![w] = @ + 1] ELSE exe
             /\ pc' = [pc EXCEPT ![w] =
                         IF n = 0 THEN "drain"
                         ELSE IF npar[n] = par[w] THEN "invoke" ELSE "acct"]
             /\ UNCHANGED cache
  /\ UNCHANGED <<sc, nodeVars, tpgVars, numTopologies, gwsq, countVars, done,
                 ntfVars, tpgl, par, rv, xpl, subVars, histVars>>

\* the popped task has another parent: settle the tasks counted so far
Acct(w) ==
  /\ pc[w] = "acct"
  /\ LET p == par[w]
         d == WDom(w)
         joined == p # 0 /\ jc[p] = exe[w]
     IN /\ tjc' = IF p = 0
                  THEN [tjc EXCEPT ![ntpg[t[w]]] = @ - exe[w]]
                  ELSE tjc
        /\ jc' = IF p # 0 THEN [jc EXCEPT ![p] = @ - exe[w]] ELSE jc
        /\ wsq' = IF joined
                  THEN [wsq EXCEPT ![w][Dom(p)] = Append(@, p)]
                  ELSE wsq
        /\ \E nt \in NotifyOutcomes(WorkerReq(w,
                        OneReq(IF p = 0 THEN d ELSE Dom(p), joined))) :
              notified' = nt
  /\ exe' = [exe EXCEPT ![w] = 1]
  /\ par' = [par EXCEPT ![w] = npar[t[w]]]
  /\ pc' = [pc EXCEPT ![w] = "invoke"]
  /\ UNCHANGED <<sc, st, ntpg, npar, rep, tlist, numTopologies, gwsq, cache,
                 countVars, done, waiter, t, tpgl, rv, xpl, subVars, histVars>>

\* a worker that tears the topology down whenever it runs out of local
\* tasks, whatever is left of the topology's counter
DrainEager(w) ==
  /\ pc[w] = "drain"
  /\ LET p == par[w]
         d == WDom(w)
         zero == IF p = 0 THEN TRUE ELSE jc[p] = exe[w]
         direct == p # 0 /\ zero /\ Dom(p) = d
         handoff == p # 0 /\ zero /\ Dom(p) # d
     IN /\ tjc' = IF p = 0 THEN [tjc EXCEPT ![tpgl[w]] = @ - exe[w]] ELSE tjc
        /\ jc' = IF p # 0 THEN [jc EXCEPT ![p] = @ - exe[w]] ELSE jc
        /\ t' = IF direct THEN [t EXCEPT ![w] = p] ELSE t
        /\ par' = IF direct THEN [par EXCEPT ![w] = npar[p]] ELSE par
        /\ exe' = IF direct THEN [exe EXCEPT ![w] = 1] ELSE exe
        /\ wsq' = IF handoff
                  THEN [wsq EXCEPT ![w][Dom(p)] = Append(@, p)]
                  ELSE wsq
        /\ \E nt \in NotifyOutcomes(WorkerReq(w,
                        OneReq(IF p = 0 THEN d ELSE Dom(p), handoff))) :
              notified' = nt
        /\ pc' = [pc EXCEPT ![w] =
                    IF p = 0 /\ zero THEN "td_pred"
                    ELSE IF direct THEN "invoke" ELSE "exit"]
  /\ UNCHANGED <<sc, st, ntpg, npar, rep, tlist, numTopologies, gwsq, cache,
                 countVars, done, waiter, tpgl, rv, xpl, subVars, histVars>>

\* a worker that goes on with the parent itself whenever its decrement
\* joined the subflow, whatever the parent's domain is
DrainDirectAnyDomain(w) ==
  /\ pc[w] = "drain"
  /\ LET p == par[w]
         d == WDom(w)
         zero == IF p = 0 THEN tjc[tpgl[w]] = exe[w] ELSE jc[p] = exe[w]
         direct == p # 0 /\ zero
     IN /\ tjc' = IF p = 0 THEN [tjc EXCEPT ![tpgl[w]] = @ - exe[w]] ELSE tjc
        /\ jc' = IF p # 0 THEN [jc EXCEPT ![p] = @ - exe[w]] ELSE jc
        /\ t' = IF direct THEN [t EXCEPT ![w] = p] ELSE t
        /\ par' = IF direct THEN [par EXCEPT ![w] = npar[p]] ELSE par
        /\ exe' = IF direct THEN [exe EXCEPT ![w] = 1] ELSE exe
        /\ pc' = [pc EXCEPT ![w] =
                    IF p = 0 /\ zero THEN "td_pred"
                    ELSE IF direct THEN "invoke" ELSE "exit"]
  /\ UNCHANGED <<sc, st, ntpg, npar, rep, tlist, numTopologies, wsq, gwsq,
                 cache, countVars, done, ntfVars, tpgl, rv, xpl, subVars,
                 histVars>>

\* no more local tasks: settle the tasks counted so far; the worker that
\* brings the counter to zero tears the topology down or runs the parent
Drain(w) ==
  /\ pc[w] = "drain"
  /\ LET p == par[w]
         d == WDom(w)
         zero == IF p = 0 THEN tjc[tpgl[w]] = exe[w] ELSE jc[p] = exe[w]
         direct == p # 0 /\ zero /\ Dom(p) = d
         handoff == p # 0 /\ zero /\ Dom(p) # d
     IN /\ tjc' = IF p = 0 THEN [tjc EXCEPT ![tpgl[w]] = @ - exe[w]] ELSE tjc
        /\ jc' = IF p # 0 THEN [jc EXCEPT ![p] = @ - exe[w]] ELSE jc
        /\ t' = IF direct THEN [t EXCEPT ![w] = p] ELSE t
        /\ par' = IF direct THEN [par EXCEPT ![w] = npar[p]] ELSE par
        /\ exe' = IF direct THEN [exe EXCEPT ![w] = 1] ELSE exe
        /\ wsq' = IF handoff
                  THEN [wsq EXCEPT ![w][Dom(p)] = Append(@, p)]
                  ELSE wsq
        /\ \E nt \in NotifyOutcomes(WorkerReq(w,
                        OneReq(IF p = 0 THEN d ELSE Dom(p), handoff))) :
              notified' = nt
        /\ pc' = [pc EXCEPT ![w] =
                    IF p = 0 /\ zero THEN "td_pred"
                    ELSE IF direct THEN "invoke" ELSE "exit"]
  /\ UNCHANGED <<sc, st, ntpg, npar, rep, tlist, numTopologies, gwsq, cache,
                 countVars, done, waiter, tpgl, rv, xpl, subVars, histVars>>

\* leaving _exploit_task
ExitExploit(w) ==
  /\ pc[w] = "exit"
  /\ numActives' = [numActives EXCEPT ![WDom(w)] = @ - 1]
  /\ pc' = [pc EXCEPT ![w] = "wft"]
  /\ UNCHANGED <<sc, nodeVars, tpgVars, numTopologies, queueVars, numThieves,
                 done, ntfVars, locVars, subVars, histVars>>

-----------------------------------------------------------------------------
(* Executor::_schedule(Node*, bool) without bypass, as one call by thread  *)
(* th for node n.  The workers' calls are part of Post, Acct and Drain;    *)
(* no caller in the executor reaches the branch for other threads, so the  *)
(* call is also applied on its own: the caller stops at "scheduled".       *)

\* a _schedule in which a worker notifies a foreign domain without reading
\* num_actives and num_thieves
ScheduleOneNotifyBlind(th, n) ==
  /\ pc[th] # "scheduled"
  /\ th \in Workers => pc[th] = "post"
  /\ IF CallerIsWorker(th)
     THEN /\ wsq' = [wsq EXCEPT ![th][Dom(n)] = Append(@, n)]
          /\ \E nt \in NotifyOutcomes(OneReq(Dom(n), Dom(n) # WDom(th))) :
                notified' = nt
          /\ UNCHANGED gwsq
     ELSE /\ gwsq' = [gwsq EXCEPT ![Dom(n)] = Append(@, n)]
          /\ \E nt \in NotifyOutcomes(OneReq(Dom(n), TRUE)) : notified' = nt
          /\ UNCHANGED wsq
  /\ pc' = [pc EXCEPT ![th] = "scheduled"]
  /\ UNCHANGED <<sc, nodeVars, tpgVars, numTopologies, cache, countVars, done,
                 waiter, locVars, subVars, histVars>>

\* _schedule(n, false) called by thread th: a worker, inside _invoke, or a
\* thread that is no worker of this executor
ScheduleOne(th, n) ==
  /\ pc[th] # "scheduled"
  /\ th \in Workers => pc[th] = "post"
  /\ IF CallerIsWorker(th)
     THEN /\ wsq' = [wsq EXCEPT ![th][Dom(n)] = Append(@, n)]
          /\ \E nt \in NotifyOutcomes(WorkerReq(th, OneReq(Dom(n), TRUE))) :
                notified' = nt
          /\ UNCHANGED gwsq
     ELSE /\ gwsq' = [gwsq EXCEPT ![Dom(n)] = Append(@, n)]
          /\ \E nt \in NotifyOutcomes(OneReq(Dom(n), TRUE)) : notified' = nt
          /\ UNCHANGED wsq
  /\ pc' = [pc EXCEPT ![th] = "scheduled"]
  /\ UNCHANGED <<sc, nodeVars, tpgVars, numTopologies, cache, countVars, done,
                 waiter, locVars, subVars, histVars>>

-----------------------------------------------------------------------------
(* Executor::_set_up_topology and Executor::_schedule(PassiveVector&).     *)

\* _set_up_topology(s): every node of the graph gets the topology, a cleared
\* state and its join counter; the topology's counter is the number of sources
SetUpNodes(s, f, new) ==
  [n \in Nodes |-> IF sc.graph[n] = sc.subs[s].g THEN new[n] ELSE f[n]]

\* per domain, the number of sources of submission s
SourceCount(s) == [d \in Domains |-> CountDom(Sources(s), d)]

\* a _schedule whose caller that is no worker of this executor pushes onto the
\* local deques of worker 0 instead of the global ones
SetUpAndScheduleLocal(th, s) ==
  /\ ntpg' = SetUpNodes(s, ntpg, [n \in Nodes |-> s])
  /\ st' = SetUpNodes(s, st, [n \in Nodes |-> SetUpState(n, {})])
  /\ jc' = SetUpNodes(s, jc, [n \in Nodes |-> SetUpJoinCounter(n)])
  /\ tjc' = [tjc EXCEPT ![s] = Len(Sources(s))]
  /\ setupLog' = [setupLog EXCEPT ![sc.subs[s].g] = Append(@, s)]
  /\ IF CallerIsWorker(th)
     THEN /\ wsq' = [wsq EXCEPT ![th] = PushSeq(@, Sources(s))]
          /\ \E nt \in NotifyOutcomes(WorkerReq(th, SourceCount(s))) :
                notified' = nt
          /\ UNCHANGED gwsq
     ELSE /\ wsq' = [wsq EXCEPT ![1] = PushSeq(@, Sources(s))]
          /\ UNCHANGED <<gwsq, notified>>

\* set up topology s and schedule its sources, by thread th.  A worker of
\* this executor pushes onto its own deques and notifies foreign domains that
\* have neither actives nor thieves; any other thread pushes onto the global
\* deques under _wsq_mutex and notifies afterwards (step RuNotify).
SetUpAndSchedule(th, s) ==
  /\ ntpg' = SetUpNodes(s, ntpg, [n \in Nodes |-> s])
  /\ st' = SetUpNodes(s, st, [n \in Nodes |-> SetUpState(n, {})])
  /\ jc' = SetUpNodes(s, jc, [n \in Nodes |-> SetUpJoinCounter(n)])
  /\ tjc' = [tjc EXCEPT ![s] = Len(Sources(s))]
  /\ setupLog' = [setupLog EXCEPT ![sc.subs[s].g] = Append(@, s)]
  /\ IF CallerIsWorker(th)
     THEN /\ wsq' = [wsq EXCEPT ![th] = PushSeq(@, Sources(s))]
          /\ \E nt \in NotifyOutcomes(WorkerReq(th, SourceCount(s))) :
                notified' = nt
          /\ UNCHANGED gwsq
     ELSE /\ gwsq' = PushSeq(gwsq, Sources(s))
          /\ UNCHANGED <<wsq, notified>>

-----------------------------------------------------------------------------
(* Executor::_tear_down_topology, called by the worker that brought the    *)
(* topology's counter to zero.                                             *)

\* a predicate that decrements before it compares: return --repeat == 0
PredPreDecrement(s) == rep[s] <= 1

\* the predicate of run_n, [repeat]() mutable { return repeat-- == 0; }:
\* true once it has returned false repeat times
Pred(s) == rep[s] = 0

\* evaluate the predicate; if it is false, run the topology again
TdPred(w) ==
  /\ pc[w] = "td_pred"
  /\ LET s == tpgl[w]
     IN /\ predEvals' = [predEvals EXCEPT ![s] = @ + 1]
        /\ IF ~Pred(s)
           THEN /\ rep' = [rep EXCEPT ![s] = @ - 1]
                /\ tjc' = [tjc EXCEPT ![s] = Len(Sources(s))]
                /\ wsq' = [wsq EXCEPT ![w] = PushSeq(@, Sources(s))]
                /\ \E nt \in NotifyOutcomes(WorkerReq(w, SourceCount(s))) :
                      notified' = nt
                /\ pc' = [pc EXCEPT ![w] = "td_pop"]
           ELSE /\ pc' = [pc EXCEPT ![w] = "td_call"]
                /\ UNCHANGED <<rep, tjc, wsq, notified>>
  /\ UNCHANGED <<sc, nodeVars, tlist, numTopologies, gwsq, cache, countVars,
                 done, waiter, locVars, subVars, inv, cbCount, ready,
                 setupLog, subLog>>

\* the final run: invoke the completion callback, which may submit a run
TdCall(w) ==
  /\ pc[w] = "td_call"
  /\ LET s == tpgl[w]
         submits == sc.subs[s].cb # 0
     IN /\ cbCount' = [cbCount EXCEPT ![s] = @ + 1]
        /\ pc' = [pc EXCEPT ![w] = IF submits THEN "ru_inc" ELSE "td_lock"]
        /\ cur' = IF submits THEN [cur EXCEPT ![w] = sc.subs[s].cb] ELSE cur
        /\ ret' = IF submits THEN [ret EXCEPT ![w] = "td_lock"] ELSE ret
  /\ UNCHANGED <<sc, nodeVars, tpgVars, numTopologies, queueVars, countVars,
                 done, ntfVars, locVars, pos, inv, ready, predEvals,
                 setupLog, subLog>>

\* a tear-down that pops the topology but forgets its promise when another
\* topology is queued
TdLockNoPromise(w) ==
  /\ pc[w] = "td_lock"
  /\ LET g == sc.subs[tpgl[w]].g
     IN /\ tlist' = [tlist EXCEPT ![g] = Tail(@)]
        /\ pc' = [pc EXCEPT ![w] =
                    IF Len(tlist[g]) > 1 THEN "td_more" ELSE "td_last"]
  /\ UNCHANGED <<sc, nodeVars, tjc, rep, numTopologies, queueVars, countVars,
                 done, ntfVars, locVars, subVars, histVars>>

\* under the graph's mutex: pop the topology; if another one is queued the
\* promise is set here
TdLock(w) ==
  /\ pc[w] = "td_lock"
  /\ LET s == tpgl[w]
         g == sc.subs[s].g
     IN /\ tlist' = [tlist EXCEPT ![g] = Tail(@)]
        /\ ready' = IF Len(tlist[g]) > 1
                    THEN [ready EXCEPT ![s] = @ + 1] ELSE ready
        /\ pc' = [pc EXCEPT ![w] =
                    IF Len(tlist[g]) > 1 THEN "td_more" ELSE "td_last"]
  /\ UNCHANGED <<sc, nodeVars, tjc, rep, numTopologies, queueVars, countVars,
                 done, ntfVars, locVars, subVars, inv, cbCount, predEvals,
                 setupLog, subLog>>

\* a tear-down that goes on to the next queued topology without
\* _decrement_topology
TdMoreKeepCount(w) ==
  /\ pc[w] = "td_more"
  /\ pc' = [pc EXCEPT ![w] = "td_setup"]
  /\ UNCHANGED <<sc, nodeVars, tpgVars, numTopologies, queueVars, countVars,
                 done, ntfVars, locVars, subVars, histVars>>

\* another topology is queued: _decrement_topology, without notification
TdMore(w) ==
  /\ pc[w] = "td_more"
  /\ numTopologies' = numTopologies - 1
  /\ pc' = [pc EXCEPT ![w] = "td_setup"]
  /\ UNCHANGED <<sc, nodeVars, tpgVars, queueVars, countVars, done, ntfVars,
                 locVars, subVars, histVars>>

\* ... then the new front is set up and its sources are scheduled
TdSetup(w) ==
  /\ pc[w] = "td_setup"
  /\ LET s == Head(tlist[sc.subs[tpgl[w]].g])
     IN /\ tpgl' = [tpgl EXCEPT ![w] = s]
        /\ SetUpAndSchedule(w, s)
  /\ pc' = [pc EXCEPT ![w] = "td_pop"]
  /\ UNCHANGED <<sc, npar, rep, tlist, numTopologies, cache, countVars, done,
                 waiter, t, par, exe, rv, xpl, subVars, inv, cbCount, ready,
                 predEvals, subLog>>

\* the last topology: the promise, moved out under the lock, is set
TdLast(w) ==
  /\ pc[w] = "td_last"
  /\ ready' = [ready EXCEPT ![tpgl[w]] = @ + 1]
  /\ pc' = [pc EXCEPT ![w] = "td_dec"]
  /\ UNCHANGED <<sc, nodeVars, tpgVars, numTopologies, queueVars, countVars,
                 done, ntfVars, locVars, subVars, inv, cbCount, predEvals,
                 setupLog, subLog>>

\* ... then _decrement_topology_and_notify (a thread blocked in wait_for_all
\* is woken when the count reaches zero) and the caller's tpg becomes null
TdDec(w) ==
  /\ pc[w] = "td_dec"
  /\ numTopologies' = numTopologies - 1
  /\ pc' = [th \in Threads |->
              IF th = w THEN "exit"
              ELSE IF numTopologies = 1 /\ pc[th] = "wfa_blocked" THEN "wfa"
              ELSE pc[th]]
  /\ tpgl' = [tpgl EXCEPT ![w] = 0]
  /\ UNCHANGED <<sc, nodeVars, tpgVars, queueVars, countVars, done, ntfVars,
                 t, par, exe, rv, xpl, subVars, histVars>>

\* back in _exploit_task with a non-null tpg: pop the own deque
TdPop(w) ==
  /\ pc[w] = "td_pop"
  /\ LET n == PopNode(wsq[w][WDom(w)])
     IN /\ t' = [t EXCEPT ![w] = n]
        /\ wsq' = [wsq EXCEPT ![w][WDom(w)] = PopRest(@)]
        /\ exe' = IF n # 0 THEN [exe EXCEPT ![w] = 1] ELSE exe
        /\ pc' = [pc EXCEPT ![w] = IF n # 0 THEN "invoke" ELSE "exit"]
  /\ UNCHANGED <<sc, nodeVars, tpgVars, numTopologies, gwsq, cache, countVars,
                 done, ntfVars, tpgl, par, rv, xpl, subVars, histVars>>

-----------------------------------------------------------------------------
(* Executor::_wait_for_task with Executor::_explore_task.                  *)

\* wait_for_task: one more thief
WftInc(w) ==
  /\ pc[w] = "wft"
  /\ numThieves' = [numThieves EXCEPT ![WDom(w)] = @ + 1]
  /\ pc' = [pc EXCEPT ![w] = "explore"]
  /\ UNCHANGED <<sc, nodeVars, tpgVars, numTopologies, queueVars, numActives,
                 done, ntfVars, locVars, subVars, histVars>>

\* a thief that always looks at the deques of the first domain
StealDomainFirst(w) == "HOST"

\* the domain whose deques _explore_task steals from: d = thief.domain
StealDomain(w) == WDom(w)

\* the deque _explore_task steals from for victim v: the global deque of the
\* thief's domain for the thief's own index, else the victim's local deque
VictimQueue(w, v) == IF v = w THEN gwsq[StealDomain(w)] ELSE wsq[v][StealDomain(w)]

\* _explore_task: a steal from victim v succeeds
ExploreSteal(w, v) ==
  /\ pc[w] = "explore"
  /\ ~done
  /\ VictimQueue(w, v) # <<>>
  /\ t' = [t EXCEPT ![w] = StealNode(VictimQueue(w, v))]
  /\ IF v = w
     THEN /\ gwsq' = [gwsq EXCEPT ![StealDomain(w)] = StealRest(@)]
          /\ UNCHANGED wsq
     ELSE /\ wsq' = [wsq EXCEPT ![v][StealDomain(w)] = StealRest(@)]
          /\ UNCHANGED gwsq
  /\ pc' = [pc EXCEPT ![w] = "found"]
  /\ UNCHANGED <<sc, nodeVars, tpgVars, numTopologies, cache, countVars, done,
                 ntfVars, tpgl, par, exe, rv, xpl, subVars, histVars>>

\* the constants of _explore_task: F = (_workers.size() + 1) << 1, Y = 100
ExploreF == (Cardinality(Workers) + 1) * 2
ExploreY == 100

\* the locals of _explore_task at its entry
ExploreLocals == [f |-> 0, y |-> 0, failed |-> 0]

\* an iteration of _explore_task that gives up as soon as yielding starts
ExploreLoopNoYield(w) ==
  /\ pc[w] = "explore"
  /\ IF done
     THEN /\ pc' = [pc EXCEPT ![w] = "prepare"]
          /\ xpl' = [xpl EXCEPT ![w] = ExploreLocals]
          /\ UNCHANGED <<t, wsq, gwsq>>
     ELSE \E v \in Workers :
            IF VictimQueue(w, v) # <<>>
            THEN /\ t' = [t EXCEPT ![w] = StealNode(VictimQueue(w, v))]
                 /\ IF v = w
                    THEN /\ gwsq' = [gwsq EXCEPT ![StealDomain(w)] = StealRest(@)]
                         /\ UNCHANGED wsq
                    ELSE /\ wsq' = [wsq EXCEPT ![v][StealDomain(w)] = StealRest(@)]
                         /\ UNCHANGED gwsq
                 /\ pc' = [pc EXCEPT ![w] = "found"]
                 /\ xpl' = [xpl EXCEPT ![w] = ExploreLocals]
            ELSE /\ IF xpl[w].f > ExploreF
                    THEN /\ pc' = [pc EXCEPT ![w] = "prepare"]
                         /\ xpl' = [xpl EXCEPT ![w] = ExploreLocals]
                    ELSE /\ xpl' = [xpl EXCEPT ![w].f = @ + 1,
                                               ![w].failed = @ + 1]
                         /\ UNCHANGED pc
                 /\ UNCHANGED <<t, wsq, gwsq>>
  /\ UNCHANGED <<sc, nodeVars, tpgVars, numTopologies, cache, countVars, done,
                 ntfVars, tpgl, par, exe, rv, subVars, histVars>>

\* one iteration of the loop of _explore_task, with its locals: leave when
\* _done is set; steal from a victim picked at random and leave with the
\* node if there is one; after a failed steal count it, yield once more than
\* F steals failed, and leave once more than Y yields were made
ExploreLoop(w) ==
  /\ pc[w] = "explore"
  /\ IF done
     THEN /\ pc' = [pc EXCEPT ![w] = "prepare"]
          /\ xpl' = [xpl EXCEPT ![w] = ExploreLocals]
          /\ UNCHANGED <<t, wsq, gwsq>>
     ELSE \E v \in Workers :
            IF VictimQueue(w, v) # <<>>
            THEN /\ t' = [t EXCEPT ![w] = StealNode(VictimQueue(w, v))]
                 /\ IF v = w
                    THEN /\ gwsq' = [gwsq EXCEPT ![StealDomain(w)] = StealRest(@)]
                         /\ UNCHANGED wsq
                    ELSE /\ wsq' = [wsq EXCEPT ![v][StealDomain(w)] = StealRest(@)]
                         /\ UNCHANGED gwsq
                 /\ pc' = [pc EXCEPT ![w] = "found"]
                 /\ xpl' = [xpl EXCEPT ![w] = ExploreLocals]
            ELSE /\ IF xpl[w].f > ExploreF /\ xpl[w].y > ExploreY
                    THEN /\ pc' = [pc EXCEPT ![w] = "prepare"]
                         /\ xpl' = [xpl EXCEPT ![w] = ExploreLocals]
                    ELSE /\ xpl' = [xpl EXCEPT
                                      ![w].f = @ + 1,
                                      ![w].y = IF xpl[w].f > ExploreF
                                               THEN @ + 1 ELSE @,
                                      ![w].failed = @ + 1]
                         /\ UNCHANGED pc
                 /\ UNCHANGED <<t, wsq, gwsq>>
  /\ UNCHANGED <<sc, nodeVars, tpgVars, numTopologies, cache, countVars, done,
                 ntfVars, tpgl, par, exe, rv, subVars, histVars>>

\* _explore_task returns empty: _done is set, or the bound of failed steals
\* is used up
ExploreMiss(w) ==
  /\ pc[w] = "explore"
  /\ pc' = [pc EXCEPT ![w] = "prepare"]
  /\ UNCHANGED <<sc, nodeVars, tpgVars, numTopologies, queueVars, countVars,
                 done, ntfVars, locVars, subVars, histVars>>

\* a thief that found a task and wakes nobody
FoundNoNotify(w) ==
  /\ pc[w] = "found"
  /\ numThieves' = [numThieves EXCEPT ![WDom(w)] = @ - 1]
  /\ pc' = [pc EXCEPT ![w] = "exploit"]
  /\ UNCHANGED <<sc, nodeVars, tpgVars, numTopologies, queueVars, numActives,
                 done, ntfVars, locVars, subVars, histVars>>

\* a task was found: one thief less; the last thief wakes another worker
Found(w) ==
  /\ pc[w] = "found"
  /\ numThieves' = [numThieves EXCEPT ![WDom(w)] = @ - 1]
  /\ \E nt \in NotifyOutcomes(OneReq(WDom(w), numThieves[WDom(w)] = 1)) :
        notified' = nt
  /\ pc' = [pc EXCEPT ![w] = "exploit"]
  /\ UNCHANGED <<sc, nodeVars, tpgVars, numTopologies, queueVars, numActives,
                 done, waiter, locVars, subVars, histVars>>

\* prepare_wait
Prepare(w) ==
  /\ pc[w] = "prepare"
  /\ waiter' = [waiter EXCEPT ![w] = "prepared"]
  /\ pc' = [pc EXCEPT ![w] = "chk_global"]
  /\ UNCHANGED <<sc, nodeVars, tpgVars, numTopologies, queueVars, countVars,
                 done, notified, locVars, subVars, histVars>>

\* the global deque of the domain is not empty: cancel the wait
ChkGlobal(w) ==
  /\ pc[w] = "chk_global"
  /\ IF gwsq[WDom(w)] # <<>>
     THEN /\ waiter' = Idle(w)
          /\ notified' = notified \ {w}
          /\ pc' = [pc EXCEPT ![w] = "steal_global"]
     ELSE /\ pc' = [pc EXCEPT ![w] = "chk_done"]
          /\ UNCHANGED ntfVars
  /\ UNCHANGED <<sc, nodeVars, tpgVars, numTopologies, queueVars, countVars,
                 done, locVars, subVars, histVars>>

\* a failed steal from the global deque that goes back to the head of
\* _wait_for_task, where num_thieves is incremented again
StealGlobalRestart(w) ==
  /\ pc[w] = "steal_global"
  /\ t' = [t EXCEPT ![w] = StealNode(gwsq[WDom(w)])]
  /\ gwsq' = [gwsq EXCEPT ![WDom(w)] = StealRest(@)]
  /\ pc' = [pc EXCEPT ![w] =
              IF gwsq[WDom(w)] # <<>> THEN "found" ELSE "wft"]
  /\ UNCHANGED <<sc, nodeVars, tpgVars, numTopologies, wsq, cache, countVars,
                 done, ntfVars, tpgl, par, exe, rv, xpl, subVars, histVars>>

\* ... and steal from it; if another thief was faster, explore again
StealGlobal(w) ==
  /\ pc[w] = "steal_global"
  /\ t' = [t EXCEPT ![w] = StealNode(gwsq[WDom(w)])]
  /\ gwsq' = [gwsq EXCEPT ![WDom(w)] = StealRest(@)]
  /\ pc' = [pc EXCEPT ![w] =
              IF gwsq[WDom(w)] # <<>> THEN "found" ELSE "explore"]
  /\ UNCHANGED <<sc, nodeVars, tpgVars, numTopologies, wsq, cache, countVars,
                 done, ntfVars, tpgl, par, exe, rv, xpl, subVars, histVars>>

\* _done is set: cancel the wait, wake everybody, leave the worker loop
ChkDone(w) ==
  /\ pc[w] = "chk_done"
  /\ IF done
     THEN /\ waiter' = Idle(w)
          /\ notified' = (notified \ {w}) \cup
                           {v \in Workers \ {w} : waiter[v] # "idle"}
          /\ numThieves' = [numThieves EXCEPT ![WDom(w)] = @ - 1]
          /\ pc' = [pc EXCEPT ![w] = "exited"]
     ELSE /\ pc' = [pc EXCEPT ![w] = "last_thief"]
          /\ UNCHANGED <<ntfVars, numThieves>>
  /\ UNCHANGED <<sc, nodeVars, tpgVars, numTopologies, queueVars, numActives,
                 done, locVars, subVars, histVars>>

\* one thief less; only the last thief of the domain checks again
LastThief(w) ==
  /\ pc[w] = "last_thief"
  /\ numThieves' = [numThieves EXCEPT ![WDom(w)] = @ - 1]
  /\ pc' = [pc EXCEPT ![w] =
              IF numThieves[WDom(w)] = 1 THEN "chk_actives" ELSE "commit"]
  /\ UNCHANGED <<sc, nodeVars, tpgVars, numTopologies, queueVars, numActives,
                 done, ntfVars, locVars, subVars, histVars>>

\* a last thief that does not look at num_actives and goes on to the deques
ChkActivesSkip(w) ==
  /\ pc[w] = "chk_actives"
  /\ pc' = [pc EXCEPT ![w] = "chk_queues"]
  /\ UNCHANGED <<sc, nodeVars, tpgVars, numTopologies, queueVars, countVars,
                 done, ntfVars, locVars, subVars, histVars>>

\* the last thief: a worker of the domain is active, so cancel and retry
ChkActives(w) ==
  /\ pc[w] = "chk_actives"
  /\ IF numActives[WDom(w)] > 0
     THEN /\ waiter' = Idle(w)
          /\ notified' = notified \ {w}
          /\ pc' = [pc EXCEPT ![w] = "wft"]
     ELSE /\ pc' = [pc EXCEPT ![w] = "chk_queues"]
          /\ UNCHANGED ntfVars
  /\ UNCHANGED <<sc, nodeVars, tpgVars, numTopologies, queueVars, countVars,
                 done, locVars, subVars, histVars>>

\* a last thief that does not look at the workers' deques and commits
ChkQueuesSkip(w) ==
  /\ pc[w] = "chk_queues"
  /\ pc' = [pc EXCEPT ![w] = "commit"]
  /\ UNCHANGED <<sc, nodeVars, tpgVars, numTopologies, queueVars, countVars,
                 done, ntfVars, locVars, subVars, histVars>>

\* the last thief: some worker's deque of the domain is not empty, so cancel
\* and retry
ChkQueues(w) ==
  /\ pc[w] = "chk_queues"
  /\ IF \E v \in Workers : wsq[v][WDom(w)] # <<>>
     THEN /\ waiter' = Idle(w)
          /\ notified' = notified \ {w}
          /\ pc' = [pc EXCEPT ![w] = "wft"]
     ELSE /\ pc' = [pc EXCEPT ![w] = "commit"]
          /\ UNCHANGED ntfVars
  /\ UNCHANGED <<sc, nodeVars, tpgVars, numTopologies, queueVars, countVars,
                 done, locVars, subVars, histVars>>

\* commit_wait: return at once if notified since prepare_wait, else block
Commit(w) ==
  /\ pc[w] = "commit"
  /\ IF w \in notified
     THEN /\ waiter' = Idle(w)
          /\ notified' = notified \ {w}
          /\ pc' = [pc EXCEPT ![w] = "exploit"]
     ELSE /\ waiter' = [waiter EXCEPT ![w] = "waiting"]
          /\ pc' = [pc EXCEPT ![w] = "blocked"]
          /\ UNCHANGED notified
  /\ UNCHANGED <<sc, nodeVars, tpgVars, numTopologies, queueVars, countVars,
                 done, locVars, subVars, histVars>>

\* a notification ends commit_wait; _wait_for_task returns true without a task
Wake(w) ==
  /\ pc[w] = "blocked"
  /\ w \in notified
  /\ waiter' = Idle(w)
  /\ notified' = notified \ {w}
  /\ pc' = [pc EXCEPT ![w] = "exploit"]
  /\ UNCHANGED <<sc, nodeVars, tpgVars, numTopologies, queueVars, countVars,
                 done, locVars, subVars, histVars>>

-----------------------------------------------------------------------------
(* Executor::run_until (run and run_n go through it), made by thread th:   *)
(* an external thread, or a worker whose callable or callback submits.     *)

\* _increment_topology
RuInc(th) ==
  /\ pc[th] = "ru_inc"
  /\ numTopologies' = numTopologies + 1
  /\ pc' = [pc EXCEPT ![th] = "ru_pred"]
  /\ UNCHANGED <<sc, nodeVars, tpgVars, queueVars, countVars, done, ntfVars,
                 locVars, subVars, histVars>>

\* a special case that sets the promise and returns without undoing
\* _increment_topology
RuPredNoDecrement(th) ==
  /\ pc[th] = "ru_pred"
  /\ LET s == cur[th]
         empty == GraphEmpty(sc.subs[s].g)
         special == empty \/ rep[s] = 0
     IN /\ predEvals' = IF empty THEN predEvals
                        ELSE [predEvals EXCEPT ![s] = @ + 1]
        /\ rep' = IF special THEN rep ELSE [rep EXCEPT ![s] = @ - 1]
        /\ ready' = IF special THEN [ready EXCEPT ![s] = @ + 1] ELSE ready
        /\ pc' = [pc EXCEPT ![th] = IF special THEN ret[th] ELSE "ru_emplace"]
  /\ UNCHANGED <<sc, nodeVars, tjc, tlist, numTopologies, queueVars, countVars,
                 done, ntfVars, locVars, subVars, inv, cbCount, setupLog,
                 subLog>>

\* the special case: f.empty() || pred().  The promise is set at once and the
\* topology count is decremented with notification; no callback is involved.
RuPred(th) ==
  /\ pc[th] = "ru_pred"
  /\ LET s == cur[th]
         empty == GraphEmpty(sc.subs[s].g)
         special == empty \/ Pred(s)
     IN /\ predEvals' = IF empty THEN predEvals
                        ELSE [predEvals EXCEPT ![s] = @ + 1]
        /\ rep' = IF special THEN rep ELSE [rep EXCEPT ![s] = @ - 1]
        /\ ready' = IF special THEN [ready EXCEPT ![s] = @ + 1] ELSE ready
        /\ numTopologies' = IF special THEN numTopologies - 1
                            ELSE numTopologies
        /\ pc' = [x \in Threads |->
                    IF x = th THEN (IF special THEN ret[th] ELSE "ru_emplace")
                    ELSE IF special /\ numTopologies = 1 /\ pc[x] = "wfa_blocked"
                    THEN "wfa" ELSE pc[x]]
  /\ UNCHANGED <<sc, nodeVars, tjc, tlist, queueVars, countVars, done,
                 ntfVars, locVars, subVars, inv, cbCount, setupLog, subLog>>

\* a run_until that runs every topology at once, queued or not
RuEmplaceRunNow(th) ==
  /\ pc[th] = "ru_emplace"
  /\ LET g == sc.subs[cur[th]].g
     IN /\ tlist' = [tlist EXCEPT ![g] = Append(@, cur[th])]
        /\ subLog' = [subLog EXCEPT ![g] = Append(@, cur[th])]
        /\ pc' = [pc EXCEPT ![th] = "ru_setup"]
  /\ UNCHANGED <<sc, nodeVars, tjc, rep, numTopologies, queueVars, countVars,
                 done, ntfVars, locVars, subVars, inv, cbCount, ready,
                 predEvals, setupLog>>

\* under the graph's mutex: append the topology; it runs now if it is alone
RuEmplace(th) ==
  /\ pc[th] = "ru_emplace"
  /\ LET s == cur[th]
         g == sc.subs[s].g
     IN /\ tlist' = [tlist EXCEPT ![g] = Append(@, s)]
        /\ subLog' = [subLog EXCEPT ![g] = Append(@, s)]
        /\ pc' = [pc EXCEPT ![th] =
                    IF tlist[g] = <<>> THEN "ru_setup" ELSE ret[th]]
  /\ UNCHANGED <<sc, nodeVars, tjc, rep, numTopologies, queueVars, countVars,
                 done, ntfVars, locVars, subVars, inv, cbCount, ready,
                 predEvals, setupLog>>

\* run_now: _set_up_topology and _schedule(sources)
RuSetup(th) ==
  /\ pc[th] = "ru_setup"
  /\ SetUpAndSchedule(th, cur[th])
  /\ pc' = [pc EXCEPT ![th] = IF CallerIsWorker(th) THEN ret[th] ELSE "ru_notify"]
  /\ UNCHANGED <<sc, npar, rep, tlist, numTopologies, cache, countVars, done,
                 waiter, locVars, subVars, inv, cbCount, ready, predEvals,
                 subLog>>

\* _schedule(sources) by a thread that is no worker, after the pushes:
\* notify_n(tcount[d]) on every domain
RuNotify(th) ==
  /\ pc[th] = "ru_notify"
  /\ \E nt \in NotifyOutcomes(SourceCount(cur[th])) : notified' = nt
  /\ pc' = [pc EXCEPT ![th] = ret[th]]
  /\ UNCHANGED <<sc, nodeVars, tpgVars, numTopologies, queueVars, countVars,
                 done, waiter, locVars, subVars, histVars>>

-----------------------------------------------------------------------------
(* The external threads: each makes its submissions in turn; the first one *)
(* then destroys the executor (Executor::~Executor).                       *)

Program(e) == sc.prog[e - Len(sc.wdom)]

\* the thread calls run / run_n / run_until for its next submission
ExtSubmit(e) ==
  /\ pc[e] = "idle"
  /\ pos[e] < Len(Program(e))
  /\ cur' = [cur EXCEPT ![e] = Program(e)[pos[e] + 1]]
  /\ pos' = [pos EXCEPT ![e] = @ + 1]
  /\ ret' = [ret EXCEPT ![e] = "idle"]
  /\ pc' = [pc EXCEPT ![e] = "ru_inc"]
  /\ UNCHANGED <<sc, nodeVars, tpgVars, numTopologies, queueVars, countVars,
                 done, ntfVars, locVars, histVars>>

\* the thread is through; the first one goes on to destroy the executor once
\* the other threads are through
ExtFinish(e) ==
  /\ pc[e] = "idle"
  /\ pos[e] = Len(Program(e))
  /\ e = MainExt => \A x \in Exts \ {e} : pc[x] = "end"
  /\ pc' = [pc EXCEPT ![e] = IF e = MainExt THEN "wfa" ELSE "end"]
  /\ UNCHANGED <<sc, nodeVars, tpgVars, numTopologies, queueVars, countVars,
                 done, ntfVars, locVars, subVars, histVars>>

\* the first thread goes on to destroy the executor as soon as it is through
\* itself, while the other threads may still submit
ExtFinishEarly(e) ==
  /\ pc[e] = "idle"
  /\ pos[e] = Len(Program(e))
  /\ pc' = [pc EXCEPT ![e] = IF e = MainExt THEN "wfa" ELSE "end"]
  /\ UNCHANGED <<sc, nodeVars, tpgVars, numTopologies, queueVars, countVars,
                 done, ntfVars, locVars, subVars, histVars>>

\* wait_for_all: wait on _topology_cv until _num_topologies == 0
WaitForAll(e) ==
  /\ pc[e] = "wfa"
  /\ pc' = [pc EXCEPT ![e] = IF numTopologies = 0 THEN "dtor" ELSE "wfa_blocked"]
  /\ UNCHANGED <<sc, nodeVars, tpgVars, numTopologies, queueVars, countVars,
                 done, ntfVars, locVars, subVars, histVars>>

\* a destructor that sets _done and forgets to wake the waiters
ShutdownNoNotify(e) ==
  /\ pc[e] = "dtor"
  /\ done' = TRUE
  /\ pc' = [pc EXCEPT ![e] = "join"]
  /\ UNCHANGED <<sc, nodeVars, tpgVars, numTopologies, queueVars, countVars,
                 ntfVars, locVars, subVars, histVars>>

\* the destructor after wait_for_all: set _done, notify(true) on every domain
Shutdown(e) ==
  /\ pc[e] = "dtor"
  /\ done' = TRUE
  /\ notified' = notified \cup {w \in Workers : waiter[w] # "idle"}
  /\ pc' = [pc EXCEPT ![e] = "join"]
  /\ UNCHANGED <<sc, nodeVars, tpgVars, numTopologies, queueVars, countVars,
                 waiter, locVars, subVars, histVars>>

\* ... and join the worker threads
JoinWorkers(e) ==
  /\ pc[e] = "join"
  /\ \A w \in Workers : pc[w] = "exited"
  /\ pc' = [pc EXCEPT ![e] = "end"]
  /\ UNCHANGED <<sc, nodeVars, tpgVars, numTopologies, queueVars, countVars,
                 done, ntfVars, locVars, subVars, histVars>>

-----------------------------------------------------------------------------
(* Scenarios.                                                              *)

\* a scenario of static nodes: the fields of dynamic, module and condition
\* nodes and of submitting callables are empty, and no submitting thread is
\* a worker of another executor
Scenario(wdom, ngraphs, kind, succ, graph, subs, prog) ==
  [wdom |-> wdom, ngraphs |-> ngraphs, kind |-> kind, succ |-> succ,
   graph |-> graph, subs |-> subs, prog |-> prog,
   sub      |-> [n \in 1..Len(kind) |-> 0],
   module   |-> [n \in 1..Len(kind) |-> 0],
   detached |-> [n \in 1..Len(kind) |-> FALSE],
   cret     |-> [n \in 1..Len(kind) |-> <<0>>],
   nsub     |-> [n \in 1..Len(kind) |-> 0],
   foreign  |-> [e \in 1..Len(prog) |-> -1]]

\* a submission run_n(g, k, callback): cb = 0 is a callback that does not
\* touch the executor, cb = s a callback that makes submission s
RunN(g, k, cb) == [g |-> g, k |-> k, cb |-> cb]

\* the worker populations of the single-domain scenarios: N = 1 and N = 2
HostWorkers == {<<"HOST">>, <<"HOST", "HOST">>}

\* S2, the diamond A -> {B, C} -> D, run k times on the workers wd
ScDiamond(wd, k) ==
  Scenario(wd, 1,
           <<"static", "static", "static", "static">>,
           <<<<2, 3>>, <<4>>, <<4>>, <<>>>>,
           <<1, 1, 1, 1>>,
           <<RunN(1, k, 0)>>, <<<<1>>>>)

\* a joined subflow: the dynamic node A emplaces X and Y each time its
\* callable runs, A -> D, and E is an independent source of the same graph
ScSubflow(wd, k) ==
  [Scenario(wd, 1,
            <<"dyn", "static", "static", "static", "static">>,
            <<<<2>>, <<>>, <<>>, <<>>, <<>>>>,
            <<1, 1, 0, 0, 1>>,
            <<RunN(1, k, 0)>>, <<<<1>>>>)
   EXCEPT !.sub = <<0, 0, 1, 1, 0>>]

\* the branch indices the condition callable of the loop scenario returns,
\* one per invocation (the last one again after that)
CondScripts == {<<0, 1>>, <<0, 2>>, <<1>>, <<-1>>}

\* a loop: init -> body -> cond, cond -> {body, done}
ScCond(wd, k, script) ==
  [Scenario(wd, 1,
            <<"static", "static", "cond", "static">>,
            <<<<2>>, <<3>>, <<2, 4>>, <<>>>>,
            <<1, 1, 1, 1>>,
            <<RunN(1, k, 0)>>, <<<<1>>>>)
   EXCEPT !.cret = <<<<0>>, <<0>>, script, <<0>>>>]

\* one worker per domain
CrossWorkers == <<"HOST", "CUDA">>

\* S6: H1 -> G -> H2 with G a cudaflow, and a condition node H2 whose two
\* successors lie in different domains
ScCross(k, id) ==
  [Scenario(CrossWorkers, 1,
            <<"static", "cuda", "cond", "static", "cuda">>,
            <<<<2>>, <<3>>, <<4, 5>>, <<>>, <<>>>>,
            <<1, 1, 1, 1, 1>>,
            <<RunN(1, k, 0)>>, <<<<1>>>>)
   EXCEPT !.cret = <<<<0>>, <<0>>, <<id>>, <<0>>, <<0>>>>]

\* a fan-out: A -> {B, C, G, D, E} and B -> D, with G a cudaflow; when A is
\* released B, C and E are ready in A's domain, G is ready in the other
\* domain and D still waits for B
ScFan(k) ==
  Scenario(CrossWorkers, 1,
           <<"static", "static", "static", "cuda", "static", "static">>,
           <<<<2, 3, 4, 5, 6>>, <<5>>, <<>>, <<>>, <<>>, <<>>>>,
           <<1, 1, 1, 1, 1, 1>>,
           <<RunN(1, k, 0)>>, <<<<1>>>>)

\* a node X that is the branch of the condition node C and the successor of
\* the static node A, with A and C both sources of the graph
ScBranchRace(wd, k) ==
  [Scenario(wd, 1,
            <<"static", "cond", "static">>,
            <<<<3>>, <<3>>, <<>>>>,
            <<1, 1, 1>>,
            <<RunN(1, k, 0)>>, <<<<1>>>>)
   EXCEPT !.cret = <<<<0>>, <<0>>, <<0>>>>]

\* two threads, each running its own one-node graph; the first thread owns
\* the executor
ScLate(wd, k) ==
  Scenario(wd, 2, <<"static", "static">>, <<<<>>, <<>>>>, <<1, 2>>,
           <<RunN(1, k, 0), RunN(2, 1, 0)>>, <<<<1>>, <<2>>>>)

\* a task that submits a run: the callable of G1's only node calls run(G2)
\* the first time it runs
ScNestedTask(wd, k) ==
  [Scenario(wd, 2, <<"static", "static">>, <<<<>>, <<>>>>, <<1, 2>>,
            <<RunN(1, k, 0), RunN(2, 1, 0)>>, <<<<1>>>>)
   EXCEPT !.nsub = <<2, 0>>]

\* S6: the chain H1 (HOST) -> G1 (CUDA) -> H2 (HOST), one worker per domain
ScS6(k) ==
  Scenario(CrossWorkers, 1, <<"static", "cuda", "static">>,
           <<<<2>>, <<3>>, <<>>>>, <<1, 1, 1>>, <<RunN(1, k, 0)>>, <<<<1>>>>)

\* a HOST dynamic node whose joined subflow is a cudaflow X and a static
\* node Y, followed by a cudaflow successor
ScCrossSubflow(k) ==
  [Scenario(CrossWorkers, 1,
            <<"dyn", "cuda", "cuda", "static">>,
            <<<<2>>, <<>>, <<>>, <<>>>>,
            <<1, 1, 0, 0>>,
            <<RunN(1, k, 0)>>, <<<<1>>>>)
   EXCEPT !.sub = <<0, 0, 1, 1>>]

\* S3: A -> cond(B) -> A, with B returning 0 at its first 5 invocations and
\* -1 afterwards; one run(G)
ScS3(wd) ==
  [Scenario(wd, 1, <<"static", "cond">>, <<<<2>>, <<1>>>>, <<1, 1>>,
            <<RunN(1, 1, 0)>>, <<<<1>>>>)
   EXCEPT !.cret = <<<<0>>, <<0, 0, 0, 0, 0, -1>>>>]

\* S3 behind a source node: I -> A -> cond(B) -> A, run k times
ScS3Seeded(wd, k) ==
  [Scenario(wd, 1, <<"static", "static", "cond">>, <<<<2>>, <<3>>, <<2>>>>,
            <<1, 1, 1>>, <<RunN(1, k, 0)>>, <<<<1>>>>)
   EXCEPT !.cret = <<<<0>>, <<0>>, <<0, 0, 0, 0, 0, -1>>>>]

\* one static node on two HOST workers
ScPair(k) ==
  Scenario(<<"HOST", "HOST">>, 1, <<"static">>, <<<<>>>>, <<1>>,
           <<RunN(1, k, 0)>>, <<<<1>>>>)

\* the diamond submitted by a thread that is a worker of another executor of
\* the process, where it has id f
ScForeign(wd, k, f) == [ScDiamond(wd, k) EXCEPT !.foreign = <<f>>]

\* a detached subflow: the dynamic node A emplaces the chain X -> Y each time
\* its callable runs and detaches it; A -> D
ScDetached(wd, k) ==
  [Scenario(wd, 1,
            <<"dyn", "static", "static", "static">>,
            <<<<2>>, <<>>, <<4>>, <<>>>>,
            <<1, 1, 0, 0>>,
            <<RunN(1, k, 0)>>, <<<<1>>>>)
   EXCEPT !.sub = <<0, 0, 1, 1>>, !.detached = <<TRUE, FALSE, FALSE, FALSE>>]

\* a module task: M -> D in the taskflow that is run, M referring to the
\* taskflow P -> Q
ScModule(wd, k) ==
  [Scenario(wd, 2,
            <<"module", "static", "static", "static">>,
            <<<<2>>, <<>>, <<4>>, <<>>>>,
            <<1, 1, 2, 2>>,
            <<RunN(1, k, 0)>>, <<<<1>>>>)
   EXCEPT !.module = <<2, 0, 0, 0>>]

\* a module task that refers to an empty taskflow: M -> D
ScModuleEmpty(wd, k) ==
  [Scenario(wd, 2, <<"module", "static">>, <<<<2>>, <<>>>>, <<1, 1>>,
            <<RunN(1, k, 0)>>, <<<<1>>>>)
   EXCEPT !.module = <<2, 0>>]

\* the programs of the external threads that submit the same graph three
\* times: one thread, or two threads side by side
MultiPrograms == {<<<<1, 2, 3>>>>, <<<<1, 2>>, <<3>>>>}

\* three submissions run_n(G, k), run(G), run(G) of a one-node graph by the
\* external threads of prog
ScMulti(wd, k, prog) ==
  Scenario(wd, 1, <<"static">>, <<<<>>>>, <<1>>,
           <<RunN(1, k, 0), RunN(1, 1, 0), RunN(1, 1, 0)>>, prog)

\* two threads submit run_n(G, k) and run(G) of a chain A -> B, two workers
ScMultiChain(k) ==
  Scenario(<<"HOST", "HOST">>, 1, <<"static", "static">>, <<<<2>>, <<>>>>,
           <<1, 1>>, <<RunN(1, k, 0), RunN(1, 1, 0)>>, <<<<1>>, <<2>>>>)

\* a submission of an empty taskflow next to a submission of a one-node graph
ScEmpty(wd, k) ==
  Scenario(wd, 2, <<"static">>, <<<<>>>>, <<1>>,
           <<RunN(2, k, 0), RunN(1, k, 0)>>, <<<<1, 2>>>>)

\* the completion callback of run_n(G1, k) submits run(G2)
ScNestedCallback(wd, k) ==
  Scenario(wd, 2, <<"static", "static">>, <<<<>>, <<>>>>, <<1, 2>>,
           <<RunN(1, k, 2), RunN(2, 1, 0)>>, <<<<1>>>>)

-----------------------------------------------------------------------------
(* The state after the executor's construction, for scenario s.            *)

InitScenario(s) ==
  /\ sc = s
  /\ jc = [n \in Nodes |-> 0]
  /\ st = [n \in Nodes |-> {}]
  /\ ntpg = [n \in Nodes |-> 0]
  /\ npar = [n \in Nodes |-> 0]
  /\ tjc = [x \in Subs |-> 0]
  /\ rep = [x \in Subs |-> sc.subs[x].k]
  /\ tlist = [g \in Graphs |-> <<>>]
  /\ numTopologies = 0
  /\ wsq = [w \in Workers |-> [d \in Domains |-> <<>>]]
  /\ gwsq = [d \in Domains |-> <<>>]
  /\ cache = [w \in Workers |-> 0]
  /\ numActives = [d \in Domains |-> 0]
  /\ numThieves = [d \in Domains |-> 0]
  /\ done = FALSE
  /\ waiter = [w \in Workers |-> "idle"]
  /\ notified = {}
  /\ pc = [th \in Threads |-> IF th \in Workers THEN "exploit" ELSE "idle"]
  /\ t = [w \in Workers |-> 0]
  /\ tpgl = [w \in Workers |-> 0]
  /\ par = [w \in Workers |-> 0]
  /\ exe = [w \in Workers |-> 0]
  /\ rv = [w \in Workers |-> 0]
  /\ xpl = [w \in Workers |-> ExploreLocals]
  /\ cur = [th \in Threads |-> 0]
  /\ ret = [th \in Threads |-> "idle"]
  /\ pos = [e \in Exts |-> 0]
  /\ inv = [n \in Nodes |-> 0]
  /\ cbCount = [x \in Subs |-> 0]
  /\ ready = [x \in Subs |-> 0]
  /\ predEvals = [x \in Subs |-> 0]
  /\ setupLog = [g \in Graphs |-> <<>>]
  /\ subLog = [g \in Graphs |-> <<>>]

\* graphs of static nodes
InitStatic ==
  \E wd \in HostWorkers, k \in 1..MaxRepeat : InitScenario(ScDiamond(wd, k))

\* a joined subflow
InitSubflow ==
  \E wd \in HostWorkers, k \in 1..MaxRepeat : InitScenario(ScSubflow(wd, k))

\* a condition node: in a loop, and with successors in two domains
InitCond ==
  \/ \E wd \in HostWorkers, k \in 1..MaxRepeat, script \in CondScripts :
       InitScenario(ScCond(wd, k, script))
  \/ \E k \in 1..MaxRepeat, id \in 0..2 : InitScenario(ScCross(k, id))

\* two domains
InitCross ==
  \/ \E k \in 1..MaxRepeat, id \in 0..2 : InitScenario(ScCross(k, id))
  \/ \E k \in 1..MaxRepeat : InitScenario(ScCrossSubflow(k))

\* several submissions, among them run_n with N = 0 and an empty taskflow
InitMulti ==
  \/ \E prog \in MultiPrograms, k \in 0..MaxRepeat :
       InitScenario(ScMulti(<<"HOST">>, k, prog))
  \/ \E k \in 1..MaxRepeat : InitScenario(ScMultiChain(k))
  \/ \E wd \in HostWorkers, k \in 0..1 : InitScenario(ScEmpty(wd, k))

\* a submission from a completion callback
InitNested ==
  \E wd \in HostWorkers, k \in 1..MaxRepeat : InitScenario(ScNestedCallback(wd, k))

\* run_until with a predicate that is false K times, K = 0 included
InitUntil ==
  \E wd \in HostWorkers, k \in 0..MaxRepeat : InitScenario(ScDiamond(wd, k))

\* the condition cycle S3, as it is and behind a source node
InitS3 ==
  \/ \E wd \in HostWorkers : InitScenario(ScS3(wd))
  \/ \E wd \in HostWorkers, k \in 1..MaxRepeat : InitScenario(ScS3Seeded(wd, k))

\* the cross-domain chain S6
InitS6 == \E k \in 1..MaxRepeat : InitScenario(ScS6(k))

\* two workers of one domain that run, steal and park side by side
InitPair == \E k \in 1..MaxRepeat : InitScenario(ScPair(k))

\* submissions made from a task running on another executor
InitForeign ==
  \E wd \in HostWorkers, k \in 1..MaxRepeat : InitScenario(ScForeign(wd, k, 0))

\* the fan-out on one worker per domain
InitFan == \E k \in 1..MaxRepeat : InitScenario(ScFan(k))

\* a branch of a condition node with an ordinary predecessor that runs
\* beside the condition node
InitRace ==
  \E wd \in HostWorkers, k \in 1..MaxRepeat : InitScenario(ScBranchRace(wd, k))

\* the diamond on one worker
InitExplore == \E k \in 1..MaxRepeat : InitScenario(ScDiamond(<<"HOST">>, k))

\* a submission that races with the destruction of the executor
InitLate == \E k \in 1..MaxRepeat : InitScenario(ScLate(<<"HOST">>, k))

\* a run submitted by a task
InitTask ==
  \E wd \in HostWorkers, k \in 1..MaxRepeat : InitScenario(ScNestedTask(wd, k))

\* a detached subflow; a module task with a non-empty and with an empty
\* taskflow
InitSpawn ==
  \/ \E wd \in HostWorkers, k \in 1..MaxRepeat : InitScenario(ScDetached(wd, k))
  \/ \E wd \in HostWorkers, k \in 1..MaxRepeat : InitScenario(ScModule(wd, k))
  \/ \E wd \in HostWorkers, k \in 1..MaxRepeat : InitScenario(ScModuleEmpty(wd, k))

Init == InitStatic

\* the steps of every run: the worker loop, the tear-down of a topology, a
\* submission and the shutdown.  Acct, TdMore and TdSetup are left to the
\* specifications below: without a subflow no popped node has another parent
\* than the one before it, and without a second submission of a graph no
\* topology is queued behind another.
Next ==
  \/ \E w \in Workers : ExploitEnter(w)
  \/ \E w \in Workers : Invoke(w)
  \/ \E w \in Workers : CallReturn(w)
  \/ \E w \in Workers : Post(w)
  \/ \E w \in Workers : NextTask(w)
  \/ \E w \in Workers : Drain(w)
  \/ \E w \in Workers : ExitExploit(w)
  \/ \E w \in Workers : TdPred(w)
  \/ \E w \in Workers : TdCall(w)
  \/ \E w \in Workers : TdLock(w)
  \/ \E w \in Workers : TdLast(w)
  \/ \E w \in Workers : TdDec(w)
  \/ \E w \in Workers : TdPop(w)
  \/ \E w \in Workers : WftInc(w)
  \/ \E w \in Workers, v \in Workers : ExploreSteal(w, v)
  \/ \E w \in Workers : ExploreMiss(w)
  \/ \E w \in Workers : Found(w)
  \/ \E w \in Workers : Prepare(w)
  \/ \E w \in Workers : ChkGlobal(w)
  \/ \E w \in Workers : StealGlobal(w)
  \/ \E w \in Workers : ChkDone(w)
  \/ \E w \in Workers : LastThief(w)
  \/ \E w \in Workers : ChkActives(w)
  \/ \E w \in Workers : ChkQueues(w)
  \/ \E w \in Workers : Commit(w)
  \/ \E w \in Workers : Wake(w)
  \/ \E th \in Threads : RuInc(th)
  \/ \E th \in Threads : RuPred(th)
  \/ \E th \in Threads : RuEmplace(th)
  \/ \E th \in Threads : RuSetup(th)
  \/ \E th \in Threads : RuNotify(th)
  \/ \E e \in Exts : ExtSubmit(e)
  \/ \E e \in Exts : ExtFinish(e)
  \/ \E e \in Exts : WaitForAll(e)
  \/ \E e \in Exts : Shutdown(e)
  \/ \E e \in Exts : JoinWorkers(e)

\* with subflows
NextSubflow ==
  \/ Next
  \/ \E w \in Workers : Acct(w)

\* with detached subflows and module tasks
NextSpawn ==
  \/ NextSubflow
  \/ \E w \in Workers : PostSched(w)

\* the program, until some thread makes one call of _schedule(n, false)
NextScheduleOne ==
  \/ (\A th \in Threads : pc[th] # "scheduled") /\ Next
  \/ \E th \in Threads : \E n \in Nodes :
        (\A x \in Threads : pc[x] # "scheduled") /\ ScheduleOne(th, n)

\* the program with the loop of _explore_task taken iteration by iteration
NextExplore ==
  \/ \E w \in Workers : ExploitEnter(w)
  \/ \E w \in Workers : Invoke(w)
  \/ \E w \in Workers : CallReturn(w)
  \/ \E w \in Workers : Post(w)
  \/ \E w \in Workers : NextTask(w)
  \/ \E w \in Workers : Drain(w)
  \/ \E w \in Workers : ExitExploit(w)
  \/ \E w \in Workers : TdPred(w)
  \/ \E w \in Workers : TdCall(w)
  \/ \E w \in Workers : TdLock(w)
  \/ \E w \in Workers : TdLast(w)
  \/ \E w \in Workers : TdDec(w)
  \/ \E w \in Workers : TdPop(w)
  \/ \E w \in Workers : WftInc(w)
  \/ \E w \in Workers : ExploreLoop(w)
  \/ \E w \in Workers : Found(w)
  \/ \E w \in Workers : Prepare(w)
  \/ \E w \in Workers : ChkGlobal(w)
  \/ \E w \in Workers : StealGlobal(w)
  \/ \E w \in Workers : ChkDone(w)
  \/ \E w \in Workers : LastThief(w)
  \/ \E w \in Workers : ChkActives(w)
  \/ \E w \in Workers : ChkQueues(w)
  \/ \E w \in Workers : Commit(w)
  \/ \E w \in Workers : Wake(w)
  \/ \E th \in Threads : RuInc(th)
  \/ \E th \in Threads : RuPred(th)
  \/ \E th \in Threads : RuEmplace(th)
  \/ \E th \in Threads : RuSetup(th)
  \/ \E th \in Threads : RuNotify(th)
  \/ \E e \in Exts : ExtSubmit(e)
  \/ \E e \in Exts : ExtFinish(e)
  \/ \E e \in Exts : WaitForAll(e)
  \/ \E e \in Exts : Shutdown(e)
  \/ \E e \in Exts : JoinWorkers(e)

\* the program when the executor is destroyed while another thread still
\* submits
NextEarly ==
  \/ \E w \in Workers : ExploitEnter(w)
  \/ \E w \in Workers : Invoke(w)
  \/ \E w \in Workers : CallReturn(w)
  \/ \E w \in Workers : Post(w)
  \/ \E w \in Workers : NextTask(w)
  \/ \E w \in Workers : Drain(w)
  \/ \E w \in Workers : ExitExploit(w)
  \/ \E w \in Workers : TdPred(w)
  \/ \E w \in Workers : TdCall(w)
  \/ \E w \in Workers : TdLock(w)
  \/ \E w \in Workers : TdLast(w)
  \/ \E w \in Workers : TdDec(w)
  \/ \E w \in Workers : TdPop(w)
  \/ \E w \in Workers : WftInc(w)
  \/ \E w \in Workers, v \in Workers : ExploreSteal(w, v)
  \/ \E w \in Workers : ExploreMiss(w)
  \/ \E w \in Workers : Found(w)
  \/ \E w \in Workers : Prepare(w)
  \/ \E w \in Workers : ChkGlobal(w)
  \/ \E w \in Workers : StealGlobal(w)
  \/ \E w \in Workers : ChkDone(w)
  \/ \E w \in Workers : LastThief(w)
  \/ \E w \in Workers : ChkActives(w)
  \/ \E w \in Workers : ChkQueues(w)
  \/ \E w \in Workers : Commit(w)
  \/ \E w \in Workers : Wake(w)
  \/ \E th \in Threads : RuInc(th)
  \/ \E th \in Threads : RuPred(th)
  \/ \E th \in Threads : RuEmplace(th)
  \/ \E th \in Threads : RuSetup(th)
  \/ \E th \in Threads : RuNotify(th)
  \/ \E e \in Exts : ExtSubmit(e)
  \/ \E e \in Exts : ExtFinishEarly(e)
  \/ \E e \in Exts : WaitForAll(e)
  \/ \E e \in Exts : Shutdown(e)
  \/ \E e \in Exts : JoinWorkers(e)

\* with topologies queued behind one another
NextMulti ==
  \/ Next
  \/ \E w \in Workers : TdMore(w)
  \/ \E w \in Workers : TdSetup(w)

\* graphs of static nodes, run_n(G, K) with K >= 1, one or two workers
Spec == Init /\ [][Next]_vars

\* the diamond under run_n(G, K) with K >= 0
SpecUntil == InitUntil /\ [][Next]_vars

\* the condition cycle S3
SpecS3 == InitS3 /\ [][Next]_vars

\* a submitting thread that is a worker of another executor
SpecForeign == InitForeign /\ [][Next]_vars

\* a dynamic node with a joined subflow
SpecSubflow == InitSubflow /\ [][NextSubflow]_vars

\* the fan-out
SpecFan == InitFan /\ [][Next]_vars

\* a condition node and an ordinary predecessor releasing the same node
SpecRace == InitRace /\ [][Next]_vars

\* detached subflows and module tasks
SpecSpawn == InitSpawn /\ [][NextSpawn]_vars

\* a condition node, in a loop or with successors in two domains
SpecCond == InitCond /\ [][Next]_vars

\* a HOST worker and a CUDA worker
SpecCross == InitCross /\ [][NextSubflow]_vars

\* three submissions of one graph; run_n with N = 0; an empty taskflow
SpecMulti == InitMulti /\ [][NextMulti]_vars

\* the threads (two workers and the submitting thread) and the nodes of the
\* scenarios with a submitting callback
ThreadIds == 1..3
NodeIds == 1..2

\* any step of worker w; any step of thread th in run_until or in the
\* program of an external thread
WorkerStep(w) ==
  /\ w \in Workers
  /\ \/ ExploitEnter(w) \/ Invoke(w) \/ CallReturn(w) \/ Post(w)
     \/ PostSched(w) \/ NextTask(w) \/ Acct(w) \/ Drain(w) \/ ExitExploit(w)
     \/ TdPred(w) \/ TdCall(w) \/ TdLock(w) \/ TdMore(w) \/ TdSetup(w)
     \/ TdLast(w) \/ TdDec(w) \/ TdPop(w)
     \/ WftInc(w) \/ ExploreMiss(w) \/ Found(w) \/ Prepare(w)
     \/ ChkGlobal(w) \/ StealGlobal(w) \/ ChkDone(w) \/ LastThief(w)
     \/ ChkActives(w) \/ ChkQueues(w) \/ Commit(w) \/ Wake(w)
     \/ \E v \in Workers : ExploreSteal(w, v)
SubmitStep(th) ==
  /\ th \in Threads
  /\ \/ RuInc(th) \/ RuPred(th) \/ RuEmplace(th) \/ RuSetup(th) \/ RuNotify(th)
     \/ th \in Exts /\ (ExtSubmit(th) \/ ExtFinish(th) \/ WaitForAll(th)
                          \/ Shutdown(th) \/ JoinWorkers(th))

\* fair scheduling of the threads: a thread that can take a step takes one.
\* _explore_task draws its victims uniformly at random, so a steal that
\* stays possible again and again is made.
Fairness ==
  /\ \A th \in ThreadIds : WF_vars(WorkerStep(th)) /\ WF_vars(SubmitStep(th))
  /\ \A w \in ThreadIds : \A v \in ThreadIds :
        SF_vars(w \in Workers /\ v \in Workers /\ ExploreSteal(w, v))

\* the same fairness for an executor of two workers whose callables and
\* callbacks do not submit: the workers 1 and 2 and the submitting thread 3
FairnessTwoWorkers ==
  /\ \A w \in 1..2 : WF_vars(WorkerStep(w))
  /\ WF_vars(SubmitStep(3))
  /\ \A w \in 1..2 : \A v \in 1..2 : SF_vars(ExploreSteal(w, v))

\* one call of _schedule(n, false) at any point of S6
SpecScheduleOne == InitS6 /\ [][NextScheduleOne]_vars

\* the diamond on one worker, with the loop of _explore_task
SpecExplore == InitExplore /\ [][NextExplore]_vars

\* shutdown while another thread still submits
SpecLate == InitLate /\ [][NextEarly]_vars

\* a run submitted by a task
SpecTask == InitTask /\ [][Next]_vars

\* the cross-domain chain S6 under fair scheduling
SpecS6Fair == InitS6 /\ [][Next]_vars /\ FairnessTwoWorkers

\* two HOST workers up to the executor's destruction, under fair scheduling
SpecShutdownFair == InitPair /\ [][Next]_vars /\ FairnessTwoWorkers

\* a completion callback that submits a run, under fair scheduling
SpecNestedFair == InitNested /\ [][Next]_vars /\ Fairness

-----------------------------------------------------------------------------
(* Properties.                                                             *)

\* worker w is inside the callable of node n
InCallable(w, n) ==
  /\ t[w] = n
  /\ \/ pc[w] = "run"
     \/ pc[w] \in {"ru_inc", "ru_pred", "ru_emplace", "ru_setup"} /\ ret[w] = "run"

\* how often the callable of node n has been started
Started(n) == inv[n] + Cardinality({w \in Workers : InCallable(w, n)})

\* submission s is the only submission of its graph, and the graph has static
\* nodes only
StaticRun(s) ==
  /\ \A x \in Subs : sc.subs[x].g = sc.subs[s].g => x = s
  /\ \A n \in GraphNodes(sc.subs[s].g) : sc.kind[n] = "static"

\* C1: for a graph of static nodes only and K >= 1, when the future of
\* run_n(G, K) is ready every node's callable has been invoked exactly K
\* times; no node is ever invoked more than K times.
C1_StaticNodesRunKTimes ==
  \A s \in Subs :
     StaticRun(s) /\ sc.subs[s].k >= 1 =>
        \A n \in GraphNodes(sc.subs[s].g) :
           /\ Started(n) <= sc.subs[s].k
           /\ ready[s] >= 1 => inv[n] = sc.subs[s].k

\* the future of a run_n(G, K) with K > 1 of a graph with several nodes is
\* ready, on two workers
C1_Witness ==
  \E s \in Subs :
     /\ StaticRun(s) /\ sc.subs[s].k > 1 /\ ready[s] = 1
     /\ Cardinality(GraphNodes(sc.subs[s].g)) > 1
     /\ Cardinality(Workers) > 1

\* C2: for every edge u -> v with u not a condition node, the callable of v
\* has been started at most as often as the callable of u has returned: in
\* every iteration v starts only after u returned.
C2_SuccessorStartsAfterPredecessor ==
  \A u \in Nodes :
     sc.kind[u] # "cond" =>
        \A i \in 1..Len(Succ(u)) : Started(Succ(u)[i]) <= inv[u]

\* a node with two predecessors is inside its callable in the second
\* iteration
C2_Witness ==
  \E w \in Workers :
     /\ pc[w] = "run" /\ NumDependents(t[w]) = 2 /\ inv[t[w]] = 1

\* u is a dynamic node that spawns a non-empty joined subflow
JoinedSubflow(u) ==
  sc.kind[u] = "dyn" /\ ~sc.detached[u] /\ SubflowNodes(u) # {}

\* every node of u's subflow has finished as often as u's callable has run,
\* and no worker is inside _invoke of one
SubflowFinished(u) ==
  \A m \in SubflowNodes(u) :
     /\ inv[m] = inv[u]
     /\ \A w \in Workers : t[w] = m => pc[w] \notin {"invoke", "run", "post", "post_sched"}

\* what a step of worker w scheduled: the node put into its cache slot, then
\* the nodes appended to its deques
Appended(w, d) == SubSeq(wsq'[w][d], Len(wsq[w][d]) + 1, Len(wsq'[w][d]))
Scheduled(w) ==
  (IF cache'[w] # 0 /\ cache[w] = 0 THEN <<cache'[w]>> ELSE <<>>)
     \o Appended(w, "HOST") \o Appended(w, "CUDA")

\* a step of worker w that ends _invoke of node u and changes the join
\* counter of a successor of u or schedules one
ReleasesSuccessor(w, u) ==
  /\ pc[w] = "post" /\ t[w] = u /\ pc'[w] = "next"
  /\ \E i \in 1..Len(Succ(u)) :
        \/ jc'[Succ(u)[i]] # jc[Succ(u)[i]]
        \/ \E j \in 1..Len(Scheduled(w)) : Scheduled(w)[j] = Succ(u)[i]

\* C3: when a dynamic node u has spawned a non-empty joined subflow, a step
\* that decrements the join counter of a successor of u or schedules it is
\* taken only when every node of the subflow has finished.
C3_SubflowJoinsBeforeSuccessors ==
  [][\A u \in Nodes : \A w \in Workers :
        JoinedSubflow(u) /\ ReleasesSuccessor(w, u) => SubflowFinished(u)]_vars

\* the successor of a dynamic node with a joined subflow has run
C3_Witness ==
  \E u \in Nodes :
     /\ JoinedSubflow(u)
     /\ \E i \in 1..Len(Succ(u)) : inv[Succ(u)[i]] >= 1

\* C4: the visit of a condition node whose callable returned id with
\* 0 <= id < num_successors stores 0 in the join counter of successor id and
\* schedules exactly that node, leaving the join counters of the other
\* successors alone; with any other id it schedules nothing and changes no
\* join counter of a successor.
C4_ConditionSchedulesOneSuccessor ==
  [][\A w \in Workers :
        pc[w] = "post" /\ sc.kind[t[w]] = "cond" /\ pc'[w] = "next" =>
           LET n == t[w]
               id == rv[w]
           IN /\ \A d \in Domains :
                    SubSeq(wsq'[w][d], 1, Len(wsq[w][d])) = wsq[w][d]
              /\ \A v \in Workers \ {w} : wsq'[v] = wsq[v] /\ cache'[v] = cache[v]
              /\ gwsq' = gwsq
              /\ IF id >= 0 /\ id < Len(Succ(n))
                 THEN /\ jc'[Succ(n)[id + 1]] = 0
                      /\ Scheduled(w) = <<Succ(n)[id + 1]>>
                      /\ \A i \in 1..Len(Succ(n)) :
                            Succ(n)[i] # Succ(n)[id + 1] =>
                               jc'[Succ(n)[i]] = jc[Succ(n)[i]]
                 ELSE /\ Scheduled(w) = <<>>
                      /\ \A i \in 1..Len(Succ(n)) :
                            jc'[Succ(n)[i]] = jc[Succ(n)[i]]]_vars

\* a condition node's visit has ended with a successor of another domain
\* pushed on the worker's deque, and in another run with nothing scheduled
\* for an index out of range
C4_Witness ==
  \E w \in Workers :
     /\ pc[w] = "next" /\ sc.kind[t[w]] = "cond"
     /\ \/ rv[w] = 1 /\ wsq[w]["CUDA"] # <<>>
        \/ rv[w] = 2 /\ cache[w] = 0 /\ sc.cret[t[w]] = <<0, 2>> /\ inv[t[w]] = 2

\* C5: a worker only invokes nodes of its own domain.
C5_NodeRunsOnWorkerOfItsDomain ==
  \A w \in Workers :
     pc[w] \in {"invoke", "run", "post", "post_sched"} => Dom(t[w]) = WDom(w)

\* the HOST worker is in the second visit of a dynamic node whose subflow
\* had a cudaflow, which the CUDA worker has run
C5_Witness ==
  \E w \in Workers :
     /\ pc[w] = "post" /\ sc.kind[t[w]] = "dyn" /\ "SPAWNED" \in st[t[w]]
     /\ \E m \in SubflowNodes(t[w]) : Dom(m) = "CUDA" /\ inv[m] = inv[t[w]]

\* node n is in a deque
InDeque(n) ==
  \/ \E d \in Domains : \E i \in 1..Len(gwsq[d]) : gwsq[d][i] = n
  \/ \E w \in Workers :
        \E d \in Domains : \E i \in 1..Len(wsq[w][d]) : wsq[w][d][i] = n

\* a worker of node n's domain has taken n
Taken(n) ==
  \E w \in Workers :
     /\ t[w] = n /\ WDom(w) = Dom(n)
     /\ pc[w] \in {"found", "exploit", "acct", "invoke", "run", "post", "post_sched"}

\* C6: under fair scheduling a node that is in a local or global deque is
\* eventually taken by a worker of its domain.
C6_QueuedNodeIsTaken ==
  \A n \in NodeIds : (n \in Nodes /\ InDeque(n)) ~> (n \in Nodes /\ Taken(n))

\* C7: under fair scheduling the topology count returns to zero after the
\* submissions and wait_for_all returns.
C7_WaitForAllReturns ==
  <>(pc[MainExt] = "dtor" /\ numTopologies = 0)

\* C8: the future of a submission is ready only after the submission's
\* completion callback has been invoked, also for an empty graph and for a
\* predicate that is true at submission (run_n with N = 0).
C8_FutureReadyOnlyAfterCallback ==
  \A s \in Subs : ready[s] >= 1 => cbCount[s] >= 1

\* topology s has been created: run_until appended it to its graph's list
Created(s) ==
  \E i \in 1..Len(subLog[sc.subs[s].g]) : subLog[sc.subs[s].g][i] = s

\* worker w is inside the completion callback of topology s
InCallback(w, s) ==
  /\ tpgl[w] = s
  /\ pc[w] \in {"ru_inc", "ru_pred", "ru_emplace", "ru_setup"}
  /\ ret[w] = "td_lock"

\* the iterations of the topologies of seq, added up
RECURSIVE SumK(_)
SumK(seq) == IF seq = <<>> THEN 0 ELSE sc.subs[Head(seq)].k + SumK(Tail(seq))

\* the iterations the graph of s has been run for when s is through: those
\* of the topologies set up before s, and its own
IterationsThrough(s) ==
  LET log == setupLog[sc.subs[s].g]
      i   == CHOOSE j \in 1..Len(log) : log[j] = s
  IN SumK(SubSeq(log, 1, i))

\* C9: for every topology created, the callback is invoked at most once and
\* the promise set at most once; when the promise is set the callback has
\* returned and every node's callable has returned in every iteration; and
\* when wait_for_all has returned both have happened exactly once.
C9_CallbackOnceThenPromiseOnce ==
  \A s \in Subs :
     Created(s) =>
        /\ cbCount[s] <= 1 /\ ready[s] <= 1
        /\ ready[s] = 1 =>
              /\ cbCount[s] = 1
              /\ \A w \in Workers : ~InCallback(w, s)
              /\ \A n \in GraphNodes(sc.subs[s].g) : inv[n] >= IterationsThrough(s)
        /\ pc[MainExt] \in {"dtor", "join", "end"} =>
              cbCount[s] = 1 /\ ready[s] = 1

\* the promises of two topologies of one graph are set, one in the branch
\* with another topology queued and one in the branch for the last topology
C9_Witness ==
  \E s1, s2 \in Subs :
     /\ s1 # s2 /\ Created(s1) /\ Created(s2)
     /\ ready[s1] = 1 /\ ready[s2] = 1
     /\ \E w \in Workers : pc[w] = "td_dec" /\ tpgl[w] = s2
     /\ setupLog[sc.subs[s1].g] = <<s1, s2>>

\* node n is in a deque or a cache slot, or a worker has taken it and is
\* about to invoke it or is invoking it
Queued(n) ==
  \/ \E d \in Domains : \E i \in 1..Len(gwsq[d]) : gwsq[d][i] = n
  \/ \E w \in Workers :
        \/ cache[w] = n
        \/ \E d \in Domains : \E i \in 1..Len(wsq[w][d]) : wsq[w][d][i] = n
Executing(n) ==
  \E w \in Workers :
     t[w] = n /\ pc[w] \in {"found", "exploit", "acct", "invoke", "run", "post", "post_sched"}

\* the nodes of graph g that are queued or executing all belong to the
\* topology at the front of the graph's list
OneTopologyActive(g) ==
  \A n \in GraphNodes(g) :
     Queued(n) \/ Executing(n) =>
        tlist[g] # <<>> /\ ntpg[n] = Head(tlist[g])

\* C10: per graph the queued and executing nodes belong to one topology, the
\* front of the graph's list; a topology is set up in the order of
\* submission, when no node of the graph is queued or executing and every
\* earlier topology has run all its iterations and its callback; a topology
\* that had to queue is set up after the promises of all earlier ones.
C10_OneActiveTopologyFifo ==
  [][\A g \in Graphs :
        /\ OneTopologyActive(g)'
        /\ setupLog'[g] # setupLog[g] =>
              /\ setupLog'[g] = SubSeq(subLog[g], 1, Len(setupLog[g]) + 1)
              /\ \A n \in GraphNodes(g) : ~Queued(n) /\ ~Executing(n)
              /\ \A i \in 1..Len(setupLog[g]) :
                    /\ cbCount[setupLog[g][i]] = 1
                    /\ Pred(setupLog[g][i])
                    /\ (\E w \in Workers : pc[w] = "td_setup") =>
                          ready[setupLog[g][i]] = 1]_vars

\* the third submission of a graph has been set up by a tear-down after
\* submissions of two threads
C10_Witness ==
  \E g \in Graphs :
     /\ Len(setupLog[g]) = 3 /\ Len(sc.prog) = 2
     /\ \E w \in Workers : pc[w] = "td_pop"

\* submission s takes the special case of run_until: its graph is empty, or
\* its predicate is true at submission (run_n with N = 0)
SpecialCase(s) == GraphEmpty(sc.subs[s].g) \/ sc.subs[s].k = 0

\* C11: the two steps of a submission that takes the special case change
\* nothing but the topology count, which goes up by one and down by one, and
\* the promise, which is set once: no deque or cache slot, no topology list,
\* no node, no counter of the scheduler and no waiter of a notifier changes,
\* and the call returns to the caller.
C11_SpecialCaseLeavesExecutorUnchanged ==
  [][\A th \in Threads :
        /\ pc[th] \in {"ru_inc", "ru_pred"} /\ pc'[th] # pc[th]
        /\ SpecialCase(cur[th])
        => /\ <<wsq, gwsq, cache>>' = <<wsq, gwsq, cache>>
           /\ <<tlist, subLog, setupLog>>' = <<tlist, subLog, setupLog>>
           /\ <<waiter, notified>>' = <<waiter, notified>>
           /\ <<jc, st, ntpg, npar, tjc>>' = <<jc, st, ntpg, npar, tjc>>
           /\ <<numActives, numThieves, done>>' = <<numActives, numThieves, done>>
           /\ cbCount' = cbCount
           /\ IF pc[th] = "ru_inc"
              THEN /\ numTopologies' = numTopologies + 1
                   /\ ready' = ready
                   /\ pc'[th] = "ru_pred"
              ELSE /\ numTopologies' = numTopologies - 1
                   /\ ready' = [ready EXCEPT ![cur[th]] = 1]
                   /\ pc'[th] = ret[th]]_vars

\* a run_n(G, 0) of a non-empty graph has returned its ready future without a
\* topology, while a worker is inside a callable of another submission of G
C11_Witness ==
  \E s \in Subs :
     /\ SpecialCase(s) /\ ~GraphEmpty(sc.subs[s].g)
     /\ ready[s] = 1 /\ ~Created(s)
     /\ \E w \in Workers : pc[w] = "run" /\ sc.graph[t[w]] = sc.subs[s].g

\* the false results the predicate of submission s has returned so far
FalseResults(s) == sc.subs[s].k - rep[s]

\* topology s has been set up
SetUp(s) ==
  \E i \in 1..Len(setupLog[sc.subs[s].g]) : setupLog[sc.subs[s].g][i] = s

\* topology s is at the front of its graph's list
Front(s) == tlist[sc.subs[s].g] # <<>> /\ Head(tlist[sc.subs[s].g]) = s

\* the iterations of the graph of s made by the topologies set up before s
IterationsBefore(s) == IterationsThrough(s) - sc.subs[s].k

\* an iteration of s has fully drained: no node of the graph is queued or
\* executing, and every node has returned once per false result
Drained(s) ==
  \A n \in GraphNodes(sc.subs[s].g) :
     /\ ~Queued(n) /\ ~Executing(n)
     /\ inv[n] = IterationsBefore(s) + FalseResults(s)

\* C12: for a submission of a non-empty graph of static nodes, the predicate
\* is evaluated at most once more than it has returned false; its first
\* evaluation is made by the submitting thread before the topology is set
\* up, every later one when an iteration has fully drained; no node is
\* started more often than the predicate has returned false while the
\* topology is at the front of its graph's list, and when the promise is set
\* the predicate has returned true and every node has returned once per
\* false result.
C12_IterationsEqualFalseResults ==
  [][\A s \in Subs :
        ~GraphEmpty(sc.subs[s].g) =>
           /\ predEvals'[s] <= FalseResults(s)' + 1
           /\ predEvals'[s] # predEvals[s] =>
                 /\ predEvals'[s] = predEvals[s] + 1
                 /\ IF predEvals[s] = 0
                    THEN /\ ~SetUp(s)
                         /\ \E th \in Threads : pc[th] = "ru_pred" /\ cur[th] = s
                    ELSE SetUp(s) /\ Drained(s)
           /\ SetUp(s)' /\ Front(s)' =>
                 \A n \in GraphNodes(sc.subs[s].g) :
                    Started(n)' <= IterationsBefore(s)' + FalseResults(s)'
           /\ SetUp(s)' /\ ready'[s] # ready[s] =>
                 /\ rep'[s] = 0
                 /\ \A n \in GraphNodes(sc.subs[s].g) :
                       inv'[n] >= IterationsBefore(s)' + sc.subs[s].k]_vars

\* the predicate of a run_n(G, 2) has returned true at its third evaluation,
\* on two workers
C12_Witness ==
  \E s \in Subs :
     /\ sc.subs[s].k = 2 /\ predEvals[s] = 3 /\ rep[s] = 0
     /\ Cardinality(Workers) = 2 /\ Cardinality(GraphNodes(sc.subs[s].g)) = 4

\* topology s is the one of its graph that was set up last: the graph has
\* not been run again since
LastSetUp(s) ==
  LET log == setupLog[sc.subs[s].g] IN log # <<>> /\ log[Len(log)] = s

C14_IterationsDoNotOverlap ==
  \A n \in Nodes : \A m \in Nodes :
     (\A u \in Nodes : ~sc.detached[u] /\ sc.kind[u] # "cond") =>
        Started(n) <= inv[m] + 1

\* on two workers, a subflow node is inside its callable in the second
\* iteration while the other worker is inside the callable of another node
C14_Witness ==
  \E w \in Workers : \E v \in Workers \ {w} :
     /\ pc[w] = "run" /\ sc.sub[t[w]] # 0 /\ inv[t[w]] = 1
     /\ pc[v] = "run"

\* C15: in scenario S3 the future of the run becomes ready only when A has
\* run exactly 5 times, and the executor comes to rest (no thread can take a
\* step) only with the future ready and the topology count back at zero.
C15_S3RunsFiveTimesAndCompletes ==
  sc.kind = <<"static", "cond">> =>
     /\ ready[1] >= 1 => inv[1] = 5
     /\ ~ENABLED Next => ready[1] = 1 /\ inv[1] = 5 /\ numTopologies = 0

\* C16: in scenario S6, H2 is started at most as often as G1 has returned;
\* whenever G1 is running while every HOST worker is parked in commit_wait,
\* a HOST worker later runs H2; and the future of the run becomes ready with
\* the topology count back at zero.
C16_CrossDomainChainCompletes ==
  /\ [](sc.kind = <<"static", "cuda", "static">> => Started(3) <= inv[2])
  /\ (/\ sc.kind = <<"static", "cuda", "static">>
      /\ \E w \in Workers : pc[w] = "run" /\ t[w] = 2
      /\ \A w \in Workers : WDom(w) = "HOST" => pc[w] = "blocked")
       ~> (\E w \in Workers : WDom(w) = "HOST" /\ pc[w] = "run" /\ t[w] = 3)
  /\ sc.kind = <<"static", "cuda", "static">>
       ~> (ready[1] = 1 /\ numTopologies = 0 /\ inv[3] = sc.subs[1].k)

\* G1 is running on the CUDA worker in the second iteration while the HOST
\* worker is parked in commit_wait
C16_Witness ==
  /\ sc.kind = <<"static", "cuda", "static">>
  /\ \E w \in Workers : pc[w] = "run" /\ t[w] = 2 /\ inv[2] = 1
  /\ \A w \in Workers : WDom(w) = "HOST" => pc[w] = "blocked"

\* C18: once the destructor has set _done and notified every domain, every
\* worker eventually leaves its loop (_wait_for_task returned false), and
\* the destructor's join of the worker threads completes.
C18_ShutdownTerminates ==
  /\ done ~> (\A w \in 1..2 : pc[w] = "exited")
  /\ done ~> (pc[MainExt] = "end")

\* _done is set while one worker is blocked in commit_wait and the other is
\* between prepare_wait and commit_wait
C18_Witness ==
  /\ done
  /\ \E w \in Workers : \E v \in Workers :
        /\ pc[w] = "blocked"
        /\ pc[v] \in {"chk_global", "chk_done", "last_thief", "chk_actives",
                      "chk_queues", "commit"}

\* C17: this_worker_id() returns the caller's worker id if the caller is a
\* worker thread of this executor, and -1 for every other thread, a worker
\* thread of another executor included.
C17_ThisWorkerIdOnlyForOwnWorkers ==
  \A th \in Threads :
     ThisWorkerId(th) = IF th \in Workers THEN th - 1 ELSE -1


\* C19: every push and every pop on a worker's local deques, in any domain
\* slot, is made by the thread of that worker (a push adds at the bottom, a
\* pop removes the bottom element); a step of any other thread changes such a
\* deque only by a steal, which removes the top element and is made by a
\* worker; a thread that is not a worker of this executor, be it external or
\* a worker of another executor, changes no local deque and its submission
\* puts every source node on the global deque of the node's domain.
C19_LocalDequesOwnedByTheirWorker ==
  [][/\ \A th \in Threads : WorkerStep(th) \/ SubmitStep(th) =>
          \A w \in Workers, d \in Domains :
             wsq'[w][d] # wsq[w][d] =>
                IF th = w
                THEN \/ /\ Len(wsq'[w][d]) > Len(wsq[w][d])
                        /\ SubSeq(wsq'[w][d], 1, Len(wsq[w][d])) = wsq[w][d]
                     \/ wsq'[w][d] = PopRest(wsq[w][d])
                ELSE th \in Workers /\ wsq'[w][d] = StealRest(wsq[w][d])
     /\ \A th \in Threads \ Workers : SubmitStep(th) =>
          /\ wsq' = wsq
          /\ setupLog' # setupLog =>
               \A i \in 1..Len(Sources(cur[th])) :
                  \E j \in 1..Len(gwsq'[Dom(Sources(cur[th])[i])]) :
                     gwsq'[Dom(Sources(cur[th])[i])][j] = Sources(cur[th])[i]
    ]_vars

\* a thread that is a worker of another executor has submitted the diamond,
\* and a worker has stolen from another worker's deque a node that the
\* worker which ran A pushed there
C19_Witness ==
  /\ PerThreadWorker(MainExt).executor = "other"
  /\ \E v \in Workers : pc[v] = "found" /\ t[v] \in {2, 3}


\* C20: a worker's cache slot is written only while it is empty and only by
\* that worker, and the worker takes it as its very next task: the step that
\* follows _invoke moves the slot into t, empties it and leaves the deques
\* alone.  Hence the slot is non-empty only between the return of _invoke and
\* that step: it is empty at every entry to _exploit_task, at every entry to
\* _invoke and throughout _wait_for_task.
C20_CacheWrittenEmptyAndConsumedNext ==
  /\ [](\A w \in Workers : cache[w] # 0 => pc[w] = "next")
  /\ [][\A w \in Workers :
          /\ cache'[w] # cache[w] /\ cache'[w] # 0 =>
               cache[w] = 0 /\ WorkerStep(w) /\ pc[w] = "post"
          /\ cache[w] # 0 /\ (WorkerStep(w) \/ SubmitStep(w)) =>
               /\ t'[w] = cache[w]
               /\ cache'[w] = 0
               /\ pc'[w] = "invoke"
               /\ wsq' = wsq
          /\ cache[w] # 0 /\ cache'[w] # cache[w] => WorkerStep(w)
    ]_vars

\* after _invoke of A the worker holds C in its cache slot and B in its deque
C20_Witness ==
  \E w \in Workers :
     pc[w] = "next" /\ cache[w] = 3 /\ wsq[w]["HOST"] = <<2>>


\* the nodes held in the deques of the workers of W
RECURSIVE LocalLoad(_)
LocalLoad(W) ==
  IF W = {} THEN 0
  ELSE LET w == CHOOSE x \in W : TRUE
       IN Len(wsq[w]["HOST"]) + Len(wsq[w]["CUDA"]) + LocalLoad(W \ {w})

\* the nodes held in all deques, global and local
DequeLoad == Len(gwsq["HOST"]) + Len(gwsq["CUDA"]) + LocalLoad(Workers)

\* C21: in a condition loop whose nodes and workers all belong to one domain,
\* the visit of the condition node puts the chosen successor into the
\* worker's cache slot and changes no deque; and the number of nodes held in
\* deques never exceeds the number of source nodes of the graph, however
\* often the loop is taken.
C21_BranchBypassesDeques ==
  /\ [][(\A n \in Nodes : Dom(n) = "HOST") /\ (\A w \in Workers : WDom(w) = "HOST")
        => \A w \in Workers :
              /\ pc[w] = "post" /\ pc'[w] = "next" /\ sc.kind[t[w]] = "cond"
              /\ rv[w] >= 0 /\ rv[w] < Len(Succ(t[w]))
              => /\ cache'[w] = Succ(t[w])[rv[w] + 1]
                 /\ wsq' = wsq /\ gwsq' = gwsq]_vars
  /\ []((\A n \in Nodes : Dom(n) = "HOST") /\ (\A w \in Workers : WDom(w) = "HOST")
        /\ (\E n \in Nodes : sc.kind[n] = "cond")
        => DequeLoad <= Len(SourcesOf(Nodes)))

\* the condition node of the seeded S3 has sent the worker back to A for the
\* fifth time, through the cache slot, with every deque empty
C21_Witness ==
  \E w \in Workers :
     /\ pc[w] = "next" /\ sc.kind[t[w]] = "cond" /\ inv[t[w]] = 5
     /\ cache[w] = 2 /\ DequeLoad = 0


\* C22: the counter of a topology that has been set up goes to zero only in
\* the checked fetch_sub of a worker that has run out of local tasks with a
\* null parent, which then evaluates the predicate, and only when no node of
\* the topology (subflow and module children included) is in a deque, in a
\* cache slot or being invoked; the unchecked subtraction made when a worker
\* with a null parent pops a task with a parent leaves the counter above
\* zero; the counter is zero exactly while one worker is between that
\* fetch_sub and the re-seeding, or after the last iteration, so one worker
\* evaluates the predicate per iteration; and the counter is zero where
\* _tear_down_topology asserts it.
C22_TopologyCounterZeroOncePerIteration ==
  /\ [][\A s \in Subs :
          /\ tjc'[s] = 0 /\ tjc[s] # 0 =>
               /\ \E w \in Workers :
                     /\ pc[w] = "drain" /\ par[w] = 0 /\ tpgl[w] = s
                     /\ tjc[s] = exe[w] /\ pc'[w] = "td_pred"
               /\ \A n \in Nodes : ntpg[n] = s => ~Queued(n)' /\ ~Executing(n)'
          /\ \A w \in Workers :
                pc[w] = "acct" /\ pc'[w] = "invoke" /\ par[w] = 0 /\ ntpg[t[w]] = s
                => tjc'[s] > 0 /\ tjc'[s] = tjc[s] - exe[w]
          /\ predEvals'[s] # predEvals[s] /\ SetUp(s) => tjc[s] = 0]_vars
  /\ [](\A s \in Subs :
          SetUp(s) /\ Sources(s) # <<>> =>
             /\ tjc[s] >= 0
             /\ Cardinality({w \in Workers : pc[w] = "td_pred" /\ tpgl[w] = s}) <= 1
             /\ tjc[s] = 0 <=>
                  \/ \E w \in Workers : pc[w] = "td_pred" /\ tpgl[w] = s
                  \/ predEvals[s] = sc.subs[s].k + 1 /\ rep[s] = 0)
  /\ [](\A w \in Workers :
          pc[w] \in {"td_pred", "td_call", "td_lock"} => tjc[tpgl[w]] = 0)

\* a worker that entered _exploit_task with a top-level task has popped a
\* child of the module task and made the unchecked subtraction, in the second
\* iteration
C22_Witness ==
  \E w \in Workers :
     /\ pc[w] = "invoke" /\ par[w] # 0 /\ sc.kind[par[w]] = "module"
     /\ npar[par[w]] = 0 /\ exe[w] = 1 /\ "SPAWNED" \in st[par[w]]
     /\ inv[t[w]] = 1 /\ tjc[ntpg[t[w]]] = 1


\* C23: a dynamic node u with a non-empty joined subflow is visited by
\* _invoke in two alternating ways.  A visit that finds SPAWNED clear runs the
\* callable, sets SPAWNED, changes no join counter of a successor and
\* schedules no successor; a visit that finds SPAWNED set runs no callable,
\* decrements the join counter of every successor and clears SPAWNED.  The
\* callable is never started more than K times in run_n(G, K), and when the
\* future is ready it has run K times, every successor has run K times and
\* SPAWNED is clear.
C23_SpawnerVisitedTwicePerIteration ==
  /\ [][\A w \in Workers : \A u \in Nodes :
          JoinedSubflow(u) /\ t[w] = u =>
             /\ pc[w] = "invoke" /\ pc'[w] # "invoke" =>
                   pc'[w] = IF "SPAWNED" \in st[u] THEN "post" ELSE "run"
             /\ pc[w] = "post" /\ pc'[w] = "next" =>
                   IF "SPAWNED" \in st[u]
                   THEN /\ "SPAWNED" \notin st'[u]
                        /\ \A i \in 1..Len(Succ(u)) :
                              jc'[Succ(u)[i]] = jc[Succ(u)[i]] - 1
                   ELSE /\ "SPAWNED" \in st'[u]
                        /\ \A i \in 1..Len(Succ(u)) :
                              /\ jc'[Succ(u)[i]] = jc[Succ(u)[i]]
                              /\ \A j \in 1..Len(Scheduled(w)) :
                                    Scheduled(w)[j] # Succ(u)[i]]_vars
  /\ [](\A u \in Nodes : \A s \in Subs :
          JoinedSubflow(u) /\ sc.graph[u] = sc.subs[s].g =>
             /\ Started(u) <= sc.subs[s].k
             /\ ready[s] >= 1 =>
                   /\ inv[u] = sc.subs[s].k
                   /\ "SPAWNED" \notin st[u]
                   /\ \A i \in 1..Len(Succ(u)) : inv[Succ(u)[i]] = sc.subs[s].k)

\* the second visit of the spawning node in the second iteration, on two
\* workers
C23_Witness ==
  \E w \in Workers :
     /\ pc[w] = "post" /\ JoinedSubflow(t[w]) /\ "SPAWNED" \in st[t[w]]
     /\ inv[t[w]] = 2 /\ Cardinality(Workers) = 2


\* u is a dynamic node that spawns a non-empty detached subflow
DetachedSubflow(u) ==
  sc.kind[u] = "dyn" /\ sc.detached[u] /\ SubflowNodes(u) # {}

\* worker w is in _tear_down_topology of topology s, up to the promise
TearingDown(w, s) ==
  /\ tpgl[w] = s
  /\ pc[w] \in {"td_pred", "td_call", "td_lock", "td_last", "td_dec"}

\* C24: the visit of a dynamic node u that spawns a non-empty detached
\* subflow first adds the number of subflow sources to the topology's
\* counter, with nothing scheduled yet; it then schedules the sources and, in
\* the same visit, decrements every successor of u and schedules those that
\* reach zero, and leaves SPAWNED clear.  While a worker evaluates the
\* predicate, runs the callback or sets the promise of the topology, and once
\* the promise is set, u is not being invoked and every node of the detached
\* subflow has run as often as u and is neither queued nor being invoked.
C24_DetachedSubflowCountedBeforeScheduled ==
  /\ [][\A w \in Workers : \A u \in Nodes :
          DetachedSubflow(u) /\ t[w] = u =>
             /\ pc[w] = "post" /\ pc'[w] # "post" =>
                   /\ pc'[w] = "post_sched"
                   /\ tjc'[ntpg[u]] =
                        tjc[ntpg[u]] + Len(SourcesOf(SubflowNodes(u)))
                   /\ wsq' = wsq /\ gwsq' = gwsq /\ cache' = cache
             /\ pc[w] = "post_sched" /\ pc'[w] # "post_sched" =>
                   /\ pc'[w] = "next"
                   /\ tjc'[ntpg[u]] >= tjc[ntpg[u]]
                   /\ \A m \in SubflowNodes(u) :
                         NumDependents(m) = 0 =>
                            \E j \in 1..Len(Scheduled(w)) : Scheduled(w)[j] = m
                   /\ \A i \in 1..Len(Succ(u)) :
                         /\ jc'[Succ(u)[i]] = jc[Succ(u)[i]] - 1
                         /\ jc'[Succ(u)[i]] = 0 =>
                               \E j \in 1..Len(Scheduled(w)) :
                                  Scheduled(w)[j] = Succ(u)[i]
                   /\ "SPAWNED" \notin st'[u]]_vars
  /\ [](\A s \in Subs : \A u \in Nodes :
          /\ DetachedSubflow(u) /\ sc.graph[u] = sc.subs[s].g
          /\ ready[s] >= 1 \/ \E w \in Workers : TearingDown(w, s)
          => /\ ~Executing(u)
             /\ \A m \in SubflowNodes(u) :
                   inv[m] = inv[u] /\ ~Queued(m) /\ ~Executing(m))

\* the successor of the spawning node is inside its callable while no node
\* of the detached subflow has run in this iteration, the second one
C24_Witness ==
  \E w \in Workers : \E u \in Nodes :
     /\ DetachedSubflow(u) /\ inv[u] = 2
     /\ pc[w] = "run" /\ \E i \in 1..Len(Succ(u)) : Succ(u)[i] = t[w]
     /\ \A m \in SubflowNodes(u) : inv[m] = 1


\* C25: the visit of a module task u whose taskflow is not empty and that
\* finds SPAWNED clear sets SPAWNED, changes no join counter of a successor
\* and schedules no successor.  Every other visit of a module task (the
\* second one, or the first one for an empty taskflow) decrements every
\* successor, schedules those that reach zero and leaves SPAWNED clear; for a
\* non-empty taskflow it is made when every node of that taskflow has run
\* once more than the successors and is neither queued nor being invoked.
\* When the future of run_n(G, K) is ready, SPAWNED is clear and the
\* successors and the nodes of the taskflow have run K times.
C25_ModuleReleasesOnSecondVisit ==
  /\ [][\A w \in Workers : \A u \in Nodes :
          sc.kind[u] = "module" /\ t[w] = u /\ pc[w] = "post" /\ pc'[w] = "next"
          => IF GraphNodes(sc.module[u]) # {} /\ "SPAWNED" \notin st[u]
             THEN /\ "SPAWNED" \in st'[u]
                  /\ \A i \in 1..Len(Succ(u)) :
                        /\ jc'[Succ(u)[i]] = jc[Succ(u)[i]]
                        /\ \A j \in 1..Len(Scheduled(w)) :
                              Scheduled(w)[j] # Succ(u)[i]
             ELSE /\ "SPAWNED" \notin st'[u]
                  /\ GraphNodes(sc.module[u]) = {} => "SPAWNED" \notin st[u]
                  /\ \A i \in 1..Len(Succ(u)) :
                        /\ jc'[Succ(u)[i]] = jc[Succ(u)[i]] - 1
                        /\ jc'[Succ(u)[i]] = 0 =>
                              \E j \in 1..Len(Scheduled(w)) :
                                 Scheduled(w)[j] = Succ(u)[i]
                        /\ \A m \in GraphNodes(sc.module[u]) :
                              /\ inv[m] = Started(Succ(u)[i]) + 1
                              /\ ~Queued(m) /\ ~Executing(m)]_vars
  /\ [](\A u \in Nodes : \A s \in Subs :
          sc.kind[u] = "module" /\ sc.graph[u] = sc.subs[s].g /\ ready[s] >= 1
          => /\ "SPAWNED" \notin st[u]
             /\ \A i \in 1..Len(Succ(u)) : inv[Succ(u)[i]] = sc.subs[s].k
             /\ \A m \in GraphNodes(sc.module[u]) : inv[m] = sc.subs[s].k)

\* the second visit of the module task in the second iteration, after the
\* nodes of the module ran a second time
C25_Witness ==
  \E w \in Workers :
     /\ pc[w] = "post" /\ sc.kind[t[w]] = "module" /\ "SPAWNED" \in st[t[w]]
     /\ GraphNodes(sc.module[t[w]]) # {}
     /\ \A m \in GraphNodes(sc.module[t[w]]) : inv[m] = 2


\* the successors of u in domain d that the release of u makes ready, in
\* successor order
ReadySuccessors(u, d) ==
  SelectSeq(Succ(u), LAMBDA s : jc[s] = 1 /\ Dom(s) = d)

\* the counter of the join site c of node u
JoinSite(u) == IF npar[u] # 0 THEN jc[npar[u]] ELSE tjc[ntpg[u]]

\* C26: when worker w ends _invoke of a static node or cudaflow u, with k
\* successors of w's domain made ready, the last of them in successor order
\* is put in w's cache slot and the k-1 others are appended, in order, to
\* w's deque of that domain; the ready successors of another domain are
\* appended to w's deque of their domain; nothing else is scheduled; and the
\* join site c grows by one for each node appended to a deque and not for
\* the cached one.
C26_ReleasePushesAllButLastReady ==
  [][\A w \in Workers : \A u \in Nodes :
        sc.kind[u] \in {"static", "cuda"} /\ t[w] = u
        /\ pc[w] = "post" /\ pc'[w] = "next"
        => LET same == ReadySuccessors(u, WDom(w))
               k    == Len(same)
           IN /\ \A i \in 1..Len(Succ(u)) :
                    jc'[Succ(u)[i]] = jc[Succ(u)[i]] - 1
              /\ IF k >= 1
                 THEN /\ cache'[w] = same[k]
                      /\ Appended(w, WDom(w)) = SubSeq(same, 1, k - 1)
                 ELSE /\ cache'[w] = cache[w]
                      /\ Appended(w, WDom(w)) = <<>>
              /\ \A d \in Domains \ {WDom(w)} :
                    Appended(w, d) = ReadySuccessors(u, d)
              /\ \A v \in Workers \ {w} : wsq'[v] = wsq[v]
              /\ gwsq' = gwsq
              /\ (IF npar[u] # 0 THEN jc'[npar[u]] ELSE tjc'[ntpg[u]])
                    = JoinSite(u) + (IF k >= 1 THEN k - 1 ELSE 0)
                        + Len(Appended(w, "HOST")) * (IF WDom(w) = "HOST" THEN 0 ELSE 1)
                        + Len(Appended(w, "CUDA")) * (IF WDom(w) = "CUDA" THEN 0 ELSE 1)]_vars

\* the release of the fan-out's root is about to run: three successors of
\* the worker's domain and one of the other domain become ready, one does not
C26_Witness ==
  \E w \in Workers :
     /\ pc[w] = "post" /\ sc.kind[t[w]] = "static"
     /\ Len(ReadySuccessors(t[w], WDom(w))) = 3
     /\ \E d \in Domains \ {WDom(w)} : Len(ReadySuccessors(t[w], d)) = 1
     /\ \E i \in 1..Len(Succ(t[w])) : jc[Succ(t[w])[i]] = 2
     /\ inv[t[w]] = 2


\* the releases of node n that no invocation has followed yet: the slots of
\* the cache, the local deques and the global deques that hold n
RECURSIVE Occurrences(_, _)
Occurrences(ns, n) ==
  IF ns = <<>> THEN 0
  ELSE (IF Head(ns) = n THEN 1 ELSE 0) + Occurrences(Tail(ns), n)
RECURSIVE LocalReleases(_, _)
LocalReleases(W, n) ==
  IF W = {} THEN 0
  ELSE LET w == CHOOSE x \in W : TRUE
       IN (IF cache[w] = n THEN 1 ELSE 0)
            + Occurrences(wsq[w]["HOST"], n) + Occurrences(wsq[w]["CUDA"], n)
            + LocalReleases(W \ {w}, n)
PendingReleases(n) ==
  LocalReleases(Workers, n)
    + Occurrences(gwsq["HOST"], n) + Occurrences(gwsq["CUDA"], n)

\* the workers that took node n and have not left _invoke of it
Invokers(n) ==
  {w \in Workers :
     t[w] = n /\ pc[w] \in {"found", "exploit", "acct", "invoke", "run",
                            "post", "post_sched"}}

\* the workers inside _invoke of node n
InInvoke(n) ==
  {w \in Workers :
     t[w] = n /\ pc[w] \in {"invoke", "run", "post", "post_sched"}}

\* C27: no node is inside _invoke on two workers at the same time, a node
\* that is the branch of a condition node and the successor of ordinary
\* predecessors included; and a worker that takes a node for invocation
\* removes exactly one pending release of that node from a cache slot or a
\* deque, or is the worker whose decrement joined the node's subflow.
C27_OneInvocationPerRelease ==
  /\ [](\A n \in Nodes : Cardinality(InInvoke(n)) <= 1)
  /\ [][\A n \in Nodes : \A w \in Workers :
          w \notin Invokers(n) /\ w \in Invokers(n)'
          => IF pc[w] = "drain"
             THEN /\ par[w] = n /\ jc[n] = exe[w] /\ jc'[n] = 0
                  /\ PendingReleases(n)' = PendingReleases(n)
             ELSE PendingReleases(n)' = PendingReleases(n) - 1]_vars


\* worker w is inside _exploit_task with a task: after the increment of
\* num_actives and before the decrement
InExploitTask(w) ==
  pc[w] \in {"invoke", "run", "post", "post_sched", "next", "acct", "drain",
             "exit", "td_pred", "td_call", "td_lock", "td_more", "td_setup",
             "td_last", "td_dec", "td_pop", "ru_inc", "ru_pred", "ru_emplace",
             "ru_setup", "ru_notify", "wfa", "wfa_blocked"}

\* C28: num_actives[d] is the number of workers of domain d inside
\* _exploit_task with a task.  The entry of _exploit_task with a null task
\* changes neither the counter nor the notifier; the entry with a task raises
\* the counter of the worker's domain by one and, when the counter was 0 and
\* num_thieves[d] is 0, notifies one waiter of the domain if there is one;
\* the exit lowers the counter by one.
C28_NumActivesCountsExploitingWorkers ==
  /\ [](\A d \in Domains :
          numActives[d] =
            Cardinality({w \in Workers : WDom(w) = d /\ InExploitTask(w)}))
  /\ [][\A w \in Workers :
          /\ pc[w] = "exploit" /\ pc'[w] # "exploit"
             => IF t[w] = 0
                THEN numActives' = numActives /\ notified' = notified
                ELSE /\ numActives' =
                          [numActives EXCEPT ![WDom(w)] = @ + 1]
                     /\ numActives[WDom(w)] = 0 /\ numThieves[WDom(w)] = 0
                        /\ Notifiable(WDom(w)) # {}
                        => \E v \in Notifiable(WDom(w)) :
                              notified' = notified \cup {v}
          /\ pc[w] = "exit" /\ pc'[w] # "exit"
             => numActives' = [numActives EXCEPT ![WDom(w)] = @ - 1]]_vars

\* a worker enters _exploit_task with a task when no worker of its domain is
\* active, no thief is left and another worker of the domain waits
C28_Witness ==
  \E w \in Workers :
     /\ pc[w] = "exploit" /\ t[w] # 0
     /\ numActives[WDom(w)] = 0 /\ numThieves[WDom(w)] = 0
     /\ Notifiable(WDom(w)) # {}


\* C29: the step by which a worker of domain d leaves _wait_for_task with a
\* task it stole (from a worker's deque or from the global deque) lowers
\* num_thieves[d] by one and leads to _exploit_task with that task; when the
\* counter was 1 the step notifies one waiter of domain d, if there is one,
\* and otherwise it notifies nobody.
C29_LastThiefWithTaskNotifiesOne ==
  [][\A w \in Workers :
        pc[w] = "found" /\ pc'[w] # "found"
        => /\ pc'[w] = "exploit" /\ t'[w] = t[w] /\ t[w] # 0
           /\ numThieves' = [numThieves EXCEPT ![WDom(w)] = @ - 1]
           /\ IF numThieves[WDom(w)] = 1 /\ Notifiable(WDom(w)) # {}
              THEN \E v \in Notifiable(WDom(w)) : notified' = notified \cup {v}
              ELSE notified' = notified]_vars

\* the last thief of a domain found a task while another worker of the
\* domain is waiting
C29_Witness ==
  \E w \in Workers :
     /\ pc[w] = "found" /\ numThieves[WDom(w)] = 1
     /\ \E v \in Notifiable(WDom(w)) : waiter[v] = "waiting"


\* C30: a worker of domain d reads num_actives[d] before sleeping exactly
\* when its decrement took num_thieves[d] from 1 to 0, and it has then
\* prepared but not committed its wait.  If it reads a value above 0 it
\* cancels the wait (the waiter is idle again and holds no notification) and
\* is back at the start of _wait_for_task, whose next step raises
\* num_thieves[d] by one and explores; it does not reach commit_wait.
C30_LastThiefRetriesWhileActives ==
  /\ [](\A w \in Workers : pc[w] = "chk_actives" => waiter[w] = "prepared")
  /\ [][\A w \in Workers :
          /\ pc[w] = "last_thief" /\ pc'[w] # "last_thief"
             => /\ numThieves' = [numThieves EXCEPT ![WDom(w)] = @ - 1]
                /\ pc'[w] = "chk_actives" <=> numThieves[WDom(w)] = 1
          /\ pc[w] = "chk_actives" /\ pc'[w] # "chk_actives"
             /\ numActives[WDom(w)] > 0
             => /\ pc'[w] = "wft"
                /\ waiter'[w] = "idle" /\ w \notin notified'
                /\ numThieves' = numThieves
          /\ pc[w] = "wft" /\ pc'[w] # "wft"
             => /\ numThieves' = [numThieves EXCEPT ![WDom(w)] = @ + 1]
                /\ pc'[w] = "explore" /\ waiter'[w] = "idle"]_vars

\* the last thief of a domain reads num_actives while another worker of the
\* domain is active
C30_Witness ==
  \E w \in Workers :
     /\ pc[w] = "chk_actives" /\ numThieves[WDom(w)] = 0
     /\ numActives[WDom(w)] > 0


\* some worker's local deque of domain d holds a node
SomeDequeNonEmpty(d) == \E v \in Workers : wsq[v][d] # <<>>

\* C31: every step by which a worker gets to commit_wait is the check of all
\* workers' local deques of its domain, and found them all empty.
C31_EverySleeperChecksDeques ==
  [][\A w \in Workers :
        pc'[w] = "commit" /\ pc[w] # "commit"
        => pc[w] = "chk_queues" /\ ~SomeDequeNonEmpty(WDom(w))]_vars

\* C31 (amended): a worker checks the workers' local deques of its domain
\* exactly when its decrement took num_thieves[d] from 1 to 0 and it then
\* read num_actives[d] = 0; if a deque is not empty it cancels the wait and
\* is back at the start of _wait_for_task, else it goes to commit_wait.  A
\* worker whose decrement left num_thieves[d] above 0 goes to commit_wait
\* without the check.
C31_LastThiefChecksDeques ==
  [][\A w \in Workers :
        /\ pc[w] = "chk_queues" /\ pc'[w] # "chk_queues"
           => IF SomeDequeNonEmpty(WDom(w))
              THEN pc'[w] = "wft" /\ waiter'[w] = "idle" /\ w \notin notified'
              ELSE pc'[w] = "commit" /\ waiter'[w] = waiter[w]
        /\ pc'[w] = "chk_queues" /\ pc[w] # "chk_queues"
           => pc[w] = "chk_actives" /\ numActives[WDom(w)] = 0
        /\ pc'[w] = "commit" /\ pc[w] # "commit"
           => \/ pc[w] = "chk_queues"
              \/ pc[w] = "last_thief" /\ numThieves[WDom(w)] > 1]_vars

\* the last thief checks the deques while one of them holds a node
C31_Witness ==
  \E w \in Workers :
     pc[w] = "chk_queues" /\ SomeDequeNonEmpty(WDom(w))


\* C32: a call of _schedule(n, false) by a worker appends n to the worker's
\* own deque of n's domain d, leaves the global deques alone and notifies
\* one waiter of d exactly when d is not the worker's domain, num_actives[d]
\* and num_thieves[d] are 0 and a waiter exists; a call by any other thread
\* appends n to the global deque of d, leaves the local deques alone and
\* notifies one waiter of d whenever one exists.
C32_ScheduleOnePushesAndNotifies ==
  [][\A th \in Threads :
        pc'[th] = "scheduled" /\ pc[th] # "scheduled"
        => \E n \in Nodes :
              LET d == Dom(n)
                  one == \E v \in Notifiable(d) : notified' = notified \cup {v}
              IN IF th \in Workers
                 THEN /\ wsq' = [wsq EXCEPT ![th][d] = Append(@, n)]
                      /\ gwsq' = gwsq
                      /\ IF /\ d # WDom(th)
                            /\ numActives[d] = 0 /\ numThieves[d] = 0
                            /\ Notifiable(d) # {}
                         THEN one ELSE notified' = notified
                 ELSE /\ gwsq' = [gwsq EXCEPT ![d] = Append(@, n)]
                      /\ wsq' = wsq
                      /\ IF Notifiable(d) # {}
                         THEN one ELSE notified' = notified]_vars

\* a worker's call has pushed a node of the other domain and woken the
\* waiting worker of that domain
C32_Witness ==
  \E w \in Workers : \E d \in Domains \ {WDom(w)} : \E v \in Workers :
     /\ pc[w] = "scheduled" /\ wsq[w][d] # <<>>
     /\ WDom(v) = d /\ pc[v] = "blocked" /\ v \in notified


\* the batch the step of worker w hands to _schedule(PassiveVector&): the
\* sources of a joined subflow at the first visit of its dynamic node, or
\* the sources of a topology that runs again; <<>> for any other step
BatchOf(w) ==
  IF /\ pc[w] = "post" /\ sc.kind[t[w]] = "dyn" /\ ~sc.detached[t[w]]
     /\ "SPAWNED" \notin st[t[w]]
  THEN SourcesOf(SubflowNodes(t[w]))
  ELSE IF pc[w] = "td_pred" /\ ~Pred(tpgl[w]) THEN Sources(tpgl[w])
  ELSE <<>>

\* how many waiters of domain d the step notified
NewlyNotified(d) == Cardinality({v \in notified' \ notified : WDom(v) = d})

\* the step of worker w pushes its batch on w's own deques, by domain, and
\* touches no other deque
PushesBatchLocally(w) ==
  /\ \A d \in Domains :
        Appended(w, d) = SelectSeq(BatchOf(w), LAMBDA n : Dom(n) = d)
  /\ \A v \in Workers \ {w} : wsq'[v] = wsq[v]
  /\ gwsq' = gwsq

\* the step of thread th that is no worker pushes the sources of its
\* topology on the global deques and notifies nobody; its next step notifies
\* count[d] waiters of every domain d, as far as there are any
ExternalBatch(th) ==
  /\ pc[th] = "ru_setup" /\ pc'[th] # "ru_setup"
     => /\ gwsq' = PushSeq(gwsq, Sources(cur[th]))
        /\ wsq' = wsq /\ notified' = notified /\ pc'[th] = "ru_notify"
  /\ pc[th] = "ru_notify" /\ pc'[th] # "ru_notify"
     => /\ notified \subseteq notified'
        /\ \A d \in Domains :
              NewlyNotified(d) =
                Min(CountDom(Sources(cur[th]), d), Cardinality(Notifiable(d)))
        /\ wsq' = wsq /\ gwsq' = gwsq

\* C33: a batch _schedule by a worker pushes every node on the worker's own
\* deque of the node's domain and notifies count[d] waiters of every domain
\* d other than the worker's own that got a node; by an external thread it
\* pushes all nodes on the global deques in one step and then notifies
\* count[d] waiters of every domain.
C33_BatchNotifiesEveryForeignDomain ==
  [][/\ \A w \in Workers :
          BatchOf(w) # <<>> /\ WorkerStep(w)
          => /\ PushesBatchLocally(w)
             /\ notified \subseteq notified'
             /\ \A d \in Domains :
                   NewlyNotified(d) =
                     IF d # WDom(w)
                     THEN Min(CountDom(BatchOf(w), d), Cardinality(Notifiable(d)))
                     ELSE 0
     /\ \A th \in Exts : ExternalBatch(th)]_vars

\* C33 (amended): as C33, but the worker notifies a foreign domain d that
\* got a node only if num_actives[d] and num_thieves[d] are both 0.
C33_BatchNotifiesIdleForeignDomain ==
  [][/\ \A w \in Workers :
          BatchOf(w) # <<>> /\ WorkerStep(w)
          => /\ PushesBatchLocally(w)
             /\ notified \subseteq notified'
             /\ \A d \in Domains :
                   NewlyNotified(d) =
                     IF d # WDom(w) /\ numActives[d] = 0 /\ numThieves[d] = 0
                     THEN Min(CountDom(BatchOf(w), d), Cardinality(Notifiable(d)))
                     ELSE 0
     /\ \A th \in Exts : ExternalBatch(th)]_vars

\* a worker is about to schedule a batch with a node of the other domain
\* while the worker of that domain waits and no thief is left
C33_Witness ==
  \E w \in Workers : \E d \in Domains \ {WDom(w)} :
     /\ CountDom(BatchOf(w), d) > 0
     /\ numActives[d] = 0 /\ numThieves[d] = 0 /\ Notifiable(d) # {}


\* C34: inside _explore_task the locals are f = the number of failed steals
\* so far, at most F + Y + 2, and y = the number of those after the first
\* F + 1 (the yields).  An iteration that finds _done set returns empty
\* without a steal; a steal that succeeds returns the stolen node; a steal
\* that fails either raises the number of failed steals by one or returns
\* empty, and it returns empty exactly when it is failed steal F + Y + 3.
C34_ExploreReturnsWithinBound ==
  /\ [](\A w \in Workers :
          IF pc[w] = "explore"
          THEN /\ xpl[w].failed <= ExploreF + ExploreY + 2
               /\ xpl[w].f = xpl[w].failed
               /\ xpl[w].y = IF xpl[w].failed > ExploreF + 1
                             THEN xpl[w].failed - (ExploreF + 1) ELSE 0
          ELSE xpl[w] = ExploreLocals)
  /\ [][\A w \in Workers :
          pc[w] = "explore" /\ ExploreLoop(w)
          => /\ done => pc'[w] = "prepare" /\ t' = t /\ wsq' = wsq /\ gwsq' = gwsq
             /\ pc'[w] = "found"
                => /\ ~done /\ t'[w] # 0 /\ t[w] = 0
                   /\ \E v \in Workers : t'[w] = StealNode(VictimQueue(w, v))
             /\ pc'[w] = "prepare" /\ ~done
                => xpl[w].failed + 1 = ExploreF + ExploreY + 3
             /\ pc'[w] = "explore"
                => xpl'[w].failed = xpl[w].failed + 1
             /\ pc'[w] \in {"explore", "found", "prepare"}]_vars

\* the last failed steal before _explore_task gives up
C34_Witness ==
  \E w \in Workers :
     /\ pc[w] = "explore" /\ ~done
     /\ xpl[w].failed = ExploreF + ExploreY + 2 /\ xpl[w].y = ExploreY + 1


\* C35: a worker leaves its loop only by the step of _wait_for_task that
\* finds _done set after prepare_wait, and it holds no node then.  A worker
\* that stole a node returns from _wait_for_task with it, enters
\* _exploit_task with it and invokes it, whether _done is set or not.
C35_StolenNodeIsExecuted ==
  /\ [](\A w \in Workers : pc[w] = "exited" => done /\ t[w] = 0)
  /\ [][\A w \in Workers :
          /\ pc'[w] = "exited" /\ pc[w] # "exited"
             => pc[w] = "chk_done" /\ done /\ t[w] = 0
          /\ pc[w] = "found" /\ pc'[w] # "found"
             => pc'[w] = "exploit" /\ t'[w] = t[w] /\ t[w] # 0
          /\ pc[w] = "exploit" /\ t[w] # 0 /\ pc'[w] # "exploit"
             => pc'[w] = "invoke" /\ t'[w] = t[w]]_vars

\* a worker is back in its loop with a stolen node after _done was set
C35_Witness ==
  \E w \in Workers : pc[w] = "exploit" /\ t[w] # 0 /\ done


\* node p has scheduled a joined subflow or a module and waits for it
WaitsForChildren(p) ==
  /\ "SPAWNED" \in st[p]
  /\ \/ sc.kind[p] = "dyn" /\ ~sc.detached[p]
     \/ sc.kind[p] = "module"

\* C36: while a node P waits for its joined subflow or module, its join
\* counter is not negative, at most one release of P is pending or held, and
\* only a worker of P's domain holds P.  A worker's decrement of P's counter
\* that leaves it above zero releases nothing; the decrement that brings it
\* to zero is a worker's fetch_sub of exactly its exe, and that worker goes
\* on with P itself (no local task left) or appends P to its own deque (a
\* task of another parent popped) if it is of P's domain, and otherwise
\* appends P to its own deque of P's domain, from where only a worker of P's
\* domain takes it.
C36_ParentJoinedOnceInItsDomain ==
  /\ [](\A p \in Nodes :
          /\ WaitsForChildren(p)
             => /\ jc[p] >= 0
                /\ Cardinality(Invokers(p)) + PendingReleases(p) <= 1
          /\ \A w \in Invokers(p) : WDom(w) = Dom(p))
  /\ [][\A p \in Nodes : \A w \in Workers :
          WaitsForChildren(p) /\ WorkerStep(w) /\ jc'[p] < jc[p]
          => /\ pc[w] \in {"acct", "drain"} /\ par[w] = p
             /\ jc'[p] = jc[p] - exe[w]
             /\ IF jc'[p] > 0
                THEN /\ PendingReleases(p)' = PendingReleases(p)
                     /\ Invokers(p)' = Invokers(p)
                ELSE IF Dom(p) = WDom(w) /\ pc[w] = "drain"
                THEN /\ t'[w] = p /\ pc'[w] = "invoke"
                     /\ PendingReleases(p)' = 0
                ELSE /\ wsq'[w][Dom(p)] = Append(wsq[w][Dom(p)], p)
                     /\ PendingReleases(p)' = 1
                     /\ Invokers(p)' = {}]_vars

\* a worker of another domain is about to bring the counter of P to zero
C36_Witness ==
  \E w \in Workers : \E p \in Nodes :
     /\ WaitsForChildren(p) /\ pc[w] = "drain" /\ par[w] = p
     /\ jc[p] = exe[w] /\ Dom(p) # WDom(w)
     /\ inv[p] = 2


\* worker w has incremented num_thieves in _wait_for_task and not yet made
\* the matching decrement
CountedThief(w) ==
  pc[w] \in {"explore", "found", "prepare", "chk_global", "steal_global",
             "chk_done", "last_thief"}

\* C37: num_thieves[d] is the number of workers of domain d between the
\* increment at the head of _wait_for_task and the decrement of the path
\* they take, so it is never negative; a worker outside _wait_for_task, or
\* asleep in commit_wait, is not counted; and no worker is counted as a
\* thief and as active at the same time.
C37_NumThievesCountsThieves ==
  /\ [](\A d \in Domains :
          /\ numThieves[d] =
               Cardinality({w \in Workers : WDom(w) = d /\ CountedThief(w)})
          /\ numThieves[d] >= 0)
  /\ [](\A w \in Workers : ~(CountedThief(w) /\ InExploitTask(w)))
  /\ [][\A w \in Workers :
          /\ pc[w] = "wft" /\ pc'[w] # "wft"
             => numThieves' = [numThieves EXCEPT ![WDom(w)] = @ + 1]
          /\ pc[w] \in {"found", "last_thief"} /\ pc'[w] # pc[w]
             => numThieves' = [numThieves EXCEPT ![WDom(w)] = @ - 1]
          /\ pc[w] = "chk_done" /\ pc'[w] = "exited"
             => numThieves' = [numThieves EXCEPT ![WDom(w)] = @ - 1]
          /\ pc[w] = "steal_global" /\ pc'[w] = "explore"
             => numThieves' = numThieves
          /\ pc[w] \in {"chk_actives", "chk_queues"} /\ pc'[w] = "wft"
             => numThieves' = numThieves]_vars

\* two thieves of one domain, one of them about to retry after a failed
\* steal from the global deque
C37_Witness ==
  \E w \in Workers : \E v \in Workers \ {w} :
     /\ WDom(v) = WDom(w) /\ numThieves[WDom(w)] = 2
     /\ pc[w] = "steal_global" /\ gwsq[WDom(w)] = <<>>


\* C38: a worker at the head of _wait_for_task has nothing in its own local
\* deque of its own domain.
C38_OwnDequeEmptyWhenWaiting ==
  \A w \in Workers : pc[w] = "wft" => wsq[w][WDom(w)] = <<>>


\* C39: no join counter, of a topology or of a node, is ever below zero.
C39_JoinCountersNeverUnderflow ==
  /\ \A s \in Subs : tjc[s] >= 0
  /\ \A n \in Nodes : jc[n] >= 0


\* submission s has passed _increment_topology and its decrement is still due:
\* its run_until is before the special case or the emplace, or its topology
\* is in the graph's list, or a tear-down has popped it and not yet decremented
Unfinished(s) ==
  \/ \E th \in Threads : cur[th] = s /\ pc[th] \in {"ru_pred", "ru_emplace"}
  \/ \E i \in 1..Len(tlist[sc.subs[s].g]) : tlist[sc.subs[s].g][i] = s
  \/ \E w \in Workers :
       tpgl[w] = s /\ pc[w] \in {"td_more", "td_last", "td_dec"}

\* submission s has been made: an external thread has passed
\* _increment_topology for it, or it has been emplaced
Accepted(s) ==
  \/ \E e \in Exts : \E i \in 1..pos[e] :
       Program(e)[i] = s /\ (i < pos[e] \/ pc[e] # "ru_inc")
  \/ \E i \in 1..Len(subLog[sc.subs[s].g]) : subLog[sc.subs[s].g][i] = s

\* C40: _num_topologies equals the number of submissions accepted and not yet
\* accounted as finished and is never negative; the decrement without
\* notification never yields zero; a thread blocked in wait_for_all sees a
\* non-zero count; and when the count is zero the future of every submission
\* made so far is ready.
C40_TopologyCountIsUnfinishedRuns ==
  /\ [](/\ numTopologies = Cardinality({s \in Subs : Unfinished(s)})
        /\ numTopologies >= 0
        /\ \A e \in Exts : pc[e] = "wfa_blocked" => numTopologies # 0
        /\ numTopologies = 0 => \A s \in Subs : Accepted(s) => ready[s] >= 1)
  /\ [][\A w \in Workers : TdMore(w) => numTopologies' > 0]_vars

\* a thread is blocked in wait_for_all with every submission made, and a
\* tear-down has just decremented the count to one without notification: two
\* futures are ready and the last topology is still queued
C40_Witness ==
  /\ \E e \in Exts : pc[e] = "wfa_blocked"
  /\ \E w \in Workers : pc[w] = "td_setup"
  /\ numTopologies = 1
  /\ Cardinality({s \in Subs : Accepted(s)}) = 3
  /\ Cardinality({s \in Subs : ready[s] >= 1}) = 2
====
